---- MODULE Spec2Model ----
(***************************************************************************)
(* Summary API (Net-AI-Git/Project-scanner): POST /summarize.              *)
(*   summarize -> _run_structure_and_plan_step -> _run_summary_graph_step  *)
(*   graph: selector -> batch_fetcher -> summarizer -> decider             *)
(*          -> {selector | synthesizer} -> END                             *)
(* Outbound calls are wrapped by tenacity @retry inside circuitbreaker     *)
(* @circuit; the breaker objects are module state shared by all requests.  *)
(*                                                                         *)
(* Strings are opaque in TLC, so a path is a string of a small universe    *)
(* and Python's split("/"), lower(), len() and sort order on it are given  *)
(* by the tables _path_segments, Lower, StrLen and PathRank.               *)
(***************************************************************************)
EXTENDS Integers, Sequences, FiniteSets, TLC

VARIABLES
    pc,            \* where the request is: "idle", a graph node, "END", "raised"
    state,         \* SummaryGraphState of the current run
    settings,      \* the Settings fields the nodes read
    breaker,       \* one CircuitBreaker per decorated function
    last_call,     \* the wrapped call made by the step just taken (NoCall if none)
    raised,        \* exception that left graph.ainvoke ("none" if none)
    response,      \* what summarize returned for the last finished request
    requests,      \* number of requests started
    node_trace,    \* history: the nodes executed in this run, in order, each
                   \* with the decision field its execution left in the state
    inflight,      \* concurrent runs: the outbound call each one is making
    history,       \* the finished outbound calls that made a request, in order
    fetch,         \* one attempt of fetch_blob_contents_for_entries in progress
    unit,          \* the last call of a pure function: its arguments and result
    runs           \* graph runs in progress side by side: each one's own
                   \* position, state and executing node (<<>> if none)

vars == <<pc, state, settings, breaker, last_call, raised, response, requests,
          node_trace, inflight, history, fetch, unit, runs>>

\* The variables of the call layer under concurrency, of the blob fetch, of
\* the pure functions and of the runs side by side; a request of the
\* sequential machine leaves them alone.
side_vars == <<inflight, history, fetch, unit, runs>>

---------------------------------------------------------------------------
(* Bounds of the model *)

MaxRequests == 7
\* Requests when the nodes are driven over a state carrying all_repo_files.
MaxNodeRequests == 2
\* No run of the program executes this many nodes; the cap keeps a run of a
\* faulty variant finite.
MaxTrace == 100

---------------------------------------------------------------------------
(* Program constants *)

RETRY_ATTEMPTS == 3
FAILURE_THRESHOLD == 5
SUMMARY_MAX_ITERATIONS == 20
SUMMARY_MAX_CONTEXT_CHARS_PER_BATCH == 50000
SUMMARY_MAX_FILES_PER_BATCH == 50
SUMMARY_MAX_CHARS_COUNT_PER_FILE == 25000
PLAN_BATCHES_MAX_BATCHES == 20
PLAN_BATCHES_MAX_PATHS == 2000

---------------------------------------------------------------------------
(* Paths *)

RepoPaths == {"README.md", "src/a.py", "src/b.py", "Node_Modules/x.js"}

\* A path the model may name in its plan although the repository has no such file.
GhostPath == "ghost.py"

_path_segments(path) ==
    CASE path = "README.md"             -> <<"README.md">>
      [] path = "src/a.py"              -> <<"src", "a.py">>
      [] path = "src/b.py"              -> <<"src", "b.py">>
      [] path = "Node_Modules/x.js"     -> <<"Node_Modules", "x.js">>
      [] path = "ghost.py"              -> <<"ghost.py">>
      [] path = "package.json"          -> <<"package.json">>
      [] path = "src/setup.py"          -> <<"src", "setup.py">>
      [] path = "docs/LICENSE"          -> <<"docs", "LICENSE">>
      [] path = "a/b/c.py"              -> <<"a", "b", "c.py">>
      [] path = "a/b/c/d/e/f.py"        -> <<"a", "b", "c", "d", "e", "f.py">>
      [] path = "a/b/c/d/e/f/g.py"      -> <<"a", "b", "c", "d", "e", "f", "g.py">>
      [] path = "src/node_modules"      -> <<"src", "node_modules">>
      [] path = "yarn.lock"             -> <<"yarn.lock">>
      [] path = "src/App.MIN.JS"        -> <<"src", "App.MIN.JS">>
      [] path = "pkg.egg-info/PKG-INFO" -> <<"pkg.egg-info", "PKG-INFO">>
      [] path = "dist\\main.py"         -> <<"dist", "main.py">>
      [] path = "lib/Build/y.py"        -> <<"lib", "Build", "y.py">>
      [] OTHER                          -> <<>>

Lower(seg) ==
    CASE seg = "README.md"    -> "readme.md"
      [] seg = "Node_Modules" -> "node_modules"
      [] seg = "LICENSE"      -> "license"
      [] seg = "App.MIN.JS"   -> "app.min.js"
      [] seg = "PKG-INFO"     -> "pkg-info"
      [] seg = "Build"        -> "build"
      [] seg = "CLI"          -> "cli"
      [] seg = "Tool"         -> "tool"
      [] OTHER                -> seg

\* Position of the path in Python's str order (code point order).
PathRank(path) ==
    CASE path = "Node_Modules/x.js"     -> 1
      [] path = "README.md"             -> 2
      [] path = "a/b/c.py"              -> 3
      [] path = "a/b/c/d/e/f.py"        -> 4
      [] path = "a/b/c/d/e/f/g.py"      -> 5
      [] path = "dist\\main.py"         -> 6
      [] path = "docs/LICENSE"          -> 7
      [] path = "ghost.py"              -> 8
      [] path = "lib/Build/y.py"        -> 9
      [] path = "package.json"          -> 10
      [] path = "pkg.egg-info/PKG-INFO" -> 11
      [] path = "src/App.MIN.JS"        -> 12
      [] path = "src/a.py"              -> 13
      [] path = "src/b.py"              -> 14
      [] path = "src/node_modules"      -> 15
      [] path = "src/setup.py"          -> 16
      [] path = "yarn.lock"             -> 17
      [] OTHER                          -> 18

SKIP_DIRS ==
    {"node_modules", "__pycache__", ".git", "venv", ".venv", "env", ".env",
     "dist", "build", ".eggs", ".tox", ".pytest_cache", ".mypy_cache",
     ".ruff_cache", "vendor", "pods", ".idea", ".vscode", "coverage", "htmlcov",
     ".nx", ".turbo", "target", "bower_components", ".cache", "cache"}

\* File names of the universe that one of SKIP_FILE_PATTERNS (all compiled
\* with re.I) matches: a lock file and a minified script.
SkipFileNames == {"yarn.lock", "App.MIN.JS"}

\* Variant: the final segment is tested against SKIP_DIRS as well.
should_skip_path_every_segment(path) ==
    LET segments == _path_segments(path)
        n == Len(segments)
    IN  \/ \E i \in 1..n : Lower(segments[i]) \in SKIP_DIRS \cup {"pkg.egg-info"}
        \/ (n > 0 /\ segments[n] \in SkipFileNames)

should_skip_path(path) ==
    LET segments == _path_segments(path)
        n == Len(segments)
        \* lower-cased names of the universe that end with ".egg-info"
        egg_info == {"pkg.egg-info"}
    IN  \/ \E i \in 1..(n - 1) :
              \/ Lower(segments[i]) \in SKIP_DIRS
              \/ Lower(segments[i]) \in egg_info \/ Lower(segments[i]) = ".eggs"
        \/ (n > 0 /\ segments[n] \in SkipFileNames)

\* Lower-case base names of the universe that PRIORITY_README or
\* PRIORITY_LICENSE matches.
PRIORITY_README_NAMES == {"readme.md", "license"}

\* {s.lower() for s in PRIORITY_CONFIG_NAMES}
PRIORITY_CONFIG_NAMES ==
    {"package.json", "pyproject.toml", "requirements.txt",
     "requirements-dev.txt", "setup.py", "setup.cfg", "cargo.toml", "go.mod",
     "go.sum", "makefile", "dockerfile", "docker-compose.yml",
     "docker-compose.yaml", "tsconfig.json", "webpack.config.js",
     "cmakelists.txt"}

_file_priority(path) ==
    LET segments == _path_segments(path)
        base == Lower(segments[Len(segments)])
        dir_depth == Len(segments) - 1
    IN  IF base \in PRIORITY_README_NAMES THEN 0
        ELSE IF dir_depth = 0 /\ base \in PRIORITY_CONFIG_NAMES THEN 1
        ELSE IF base \in PRIORITY_CONFIG_NAMES THEN 2
        ELSE IF dir_depth <= 1 THEN 3
        ELSE 4 + (IF dir_depth < 5 THEN dir_depth ELSE 5)

---------------------------------------------------------------------------
(* Sequence helpers *)

Range(s) == {s[i] : i \in 1..Len(s)}

RECURSIVE FilterSeq(_, _)
\* [x for x in s if x in keep]
FilterSeq(s, keep) ==
    IF s = <<>> THEN <<>>
    ELSE IF Head(s) \in keep THEN <<Head(s)>> \o FilterSeq(Tail(s), keep)
    ELSE FilterSeq(Tail(s), keep)

Prefix(s, n) == IF Len(s) <= n THEN s ELSE SubSeq(s, 1, n)

---------------------------------------------------------------------------
(* Resilient call layer: @circuit(failure_threshold=5, recovery_timeout=60,  *)
(* expected_exception=...Error) around @retry(retry_if_exception(transient), *)
(* stop_after_attempt(3), reraise=True).                                     *)

\* What one attempt of the decorated function body does.
AttemptOutcomes == {"ok", "transient", "permanent"}

\* The outcomes the dependency would give to attempts 1..RETRY_ATTEMPTS.
OutcomeSeqs == [1..RETRY_ATTEMPTS -> AttemptOutcomes]

WrappedFunctions ==
    {"plan_batches_from_structure", "fetch_blob_contents_for_entries",
     "summarize_batch", "summarize_project_from_folders"}

\* A call record: the function, the outcomes of the attempts that were made,
\* their number, and what the caller got.
NoCall == [fn |-> "none", outcomes |-> <<>>, attempts |-> 0, result |-> "none"]

\* retry_if_exception(_is_llm_transient / _is_github_transient)
_is_transient(outcome) == outcome = "transient"

RECURSIVE tenacity_retry_any_failure(_, _)
\* Variant: every failure is retried, not only a transient one.
tenacity_retry_any_failure(outs, i) ==
    IF outs[i] # "ok" /\ i < RETRY_ATTEMPTS
    THEN tenacity_retry_any_failure(outs, i + 1)
    ELSE [attempts |-> i, result |-> outs[i]]

RECURSIVE tenacity_retry(_, _)
\* Attempt i of the retrying loop: stop on success, on a failure that is not
\* retryable, or when stop_after_attempt(RETRY_ATTEMPTS) says so (reraise).
tenacity_retry(outs, i) ==
    IF _is_transient(outs[i]) /\ i < RETRY_ATTEMPTS
    THEN tenacity_retry(outs, i + 1)
    ELSE [attempts |-> i, result |-> outs[i]]

\* CircuitBreaker state: _failure_count, _state = OPEN, and whether
\* recovery_timeout has elapsed since _opened.
ClosedBreaker == [failure_count |-> 0, open |-> FALSE, cooled |-> FALSE]

\* CircuitBreaker.opened: state == OPEN, where state reads HALF_OPEN once the
\* recovery timeout of an open breaker has elapsed.
opened(b) == b.open /\ ~b.cooled

call_succeeded(b) == ClosedBreaker

call_failed(b) ==
    LET n == b.failure_count + 1
    IN  IF n >= FAILURE_THRESHOLD
        THEN [failure_count |-> n, open |-> TRUE, cooled |-> FALSE]
        ELSE [b EXCEPT !.failure_count = n]

\* expected_exception is the client error class: a transient and a permanent
\* client error both count as a failure of the call.
is_failure(result) == result \in {"transient", "permanent"}

\* Variant: the breaker is inside the retrying loop and counts every attempt.
circuit_call_counting_attempts(fn, b, outs) ==
    IF opened(b)
    THEN [breaker |-> b,
          call |-> [fn |-> fn, outcomes |-> <<>>, attempts |-> 0,
                    result |-> "circuit_open"]]
    ELSE LET r == tenacity_retry(outs, 1)
             n == b.failure_count + r.attempts
         IN  [breaker |-> IF is_failure(r.result)
                          THEN [failure_count |-> n,
                                open |-> n >= FAILURE_THRESHOLD,
                                cooled |-> FALSE]
                          ELSE call_succeeded(b),
              call |-> [fn |-> fn, outcomes |-> SubSeq(outs, 1, r.attempts),
                        attempts |-> r.attempts, result |-> r.result]]

\* One call of a decorated function: the breaker decides first, then the
\* retrying loop runs, then the breaker records the call's outcome.
circuit_call(fn, b, outs) ==
    IF opened(b)
    THEN [breaker |-> b,
          call |-> [fn |-> fn, outcomes |-> <<>>, attempts |-> 0,
                    result |-> "circuit_open"]]
    ELSE LET r == tenacity_retry(outs, 1)
         IN  [breaker |-> IF is_failure(r.result) THEN call_failed(b)
                          ELSE call_succeeded(b),
              call |-> [fn |-> fn, outcomes |-> SubSeq(outs, 1, r.attempts),
                        attempts |-> r.attempts, result |-> r.result]]

---------------------------------------------------------------------------
(* Data *)

\* TreeEntry(path, size, sha); sha is "none" when the listing carried no sha.
TreeEntry(path, size, sha) == [path |-> path, size |-> size, sha |-> sha]

\* RepoFile(path, content); the content is modelled by len(content.strip()).
RepoFile(path, content) == [path |-> path, content |-> content]

\* A summary text is the sequence of its lower-case whitespace-separated words.
SummaryTexts == {<<"cli", "tool">>, <<"web">>}

EmptyFinal == [summary |-> <<>>, technologies |-> <<>>, structure |-> <<>>]

\* Parsed replies of the synthesis call.
FinalResults == {[summary |-> <<"cli", "tool">>, technologies |-> <<"python">>,
                  structure |-> <<"src">>]}

\* run_summary_graph: the initial SummaryGraphState.  all_repo_files is the key
\* selector_node and summarizer_node read with state.get("all_repo_files").
InitialState(url, entries, batches, files) ==
    [repo_github_url |-> url,
     repo_tree_entries |-> entries,
     planned_batches |-> batches,
     current_batch_index |-> 0,
     current_batch_paths |-> <<>>,
     current_batch_files |-> <<>>,
     already_summarized_paths |-> <<>>,
     summarized_chunks |-> <<>>,
     decision |-> "continue",
     final_summary |-> <<>>,
     iteration_count |-> 0,
     errors |-> <<>>,
     all_repo_files |-> files]

\* What a node hands back to the graph engine: the state after its update is
\* merged, the exception it raised ("none" if it returned), and the call layer.
NodeResult(s, exc, b, call) ==
    [state |-> s, raised |-> exc, breaker |-> b, call |-> call]

---------------------------------------------------------------------------
(* services/selection.py *)

_effective_file_size(size, max_chars_budget, max_chars_per_file) ==
    IF max_chars_per_file <= 0 THEN size
    ELSE IF size < max_chars_per_file THEN size ELSE max_chars_per_file

\* {f.path: f for f in repo_files if f.path}: keys in first-insertion order.
RECURSIVE DictKeys(_)
DictKeys(files) ==
    IF files = <<>> THEN <<>>
    ELSE LET rest == DictKeys(SubSeq(files, 1, Len(files) - 1))
             p == files[Len(files)].path
         IN  IF p = "" \/ p \in Range(rest) THEN rest ELSE Append(rest, p)

\* path_to_file[path]: the last file with that path.
DictGet(files, path) ==
    LET idx == {i \in 1..Len(files) : files[i].path = path}
    IN  files[CHOOSE i \in idx : \A j \in idx : j <= i]

\* key=lambda p: (file_priority_for_path(p), p)
SortKeyLess(p, q) ==
    \/ _file_priority(p) < _file_priority(q)
    \/ (_file_priority(p) = _file_priority(q) /\ PathRank(p) < PathRank(q))

RECURSIVE FillBatch_cap_off_by_one(_, _, _, _, _, _, _)
\* Variant: the file cap is tested with > instead of >=.
FillBatch_cap_off_by_one(candidates, files, chosen, total_chars, max_chars_budget, max_files_cap, max_chars_per_file) ==
    IF candidates = <<>> \/ Len(chosen) > max_files_cap THEN chosen
    ELSE LET path == Head(candidates)
             size == DictGet(files, path).content
             effective == _effective_file_size(size, max_chars_budget,
                                               max_chars_per_file)
         IN  IF total_chars + effective > max_chars_budget /\ chosen # <<>>
             THEN chosen
             ELSE FillBatch_cap_off_by_one(
                      Tail(candidates), files, Append(chosen, path),
                      total_chars + effective, max_chars_budget,
                      max_files_cap, max_chars_per_file)

RECURSIVE FillBatch_strict_budget(_, _, _, _, _, _, _)
\* Variant: the budget is also held against the first file of a batch.
FillBatch_strict_budget(candidates, files, chosen, total_chars, max_chars_budget, max_files_cap, max_chars_per_file) ==
    IF candidates = <<>> \/ Len(chosen) >= max_files_cap THEN chosen
    ELSE LET path == Head(candidates)
             size == DictGet(files, path).content
             effective == _effective_file_size(size, max_chars_budget,
                                               max_chars_per_file)
         IN  IF total_chars + effective > max_chars_budget
             THEN chosen
             ELSE FillBatch_strict_budget(
                      Tail(candidates), files, Append(chosen, path),
                      total_chars + effective, max_chars_budget,
                      max_files_cap, max_chars_per_file)

RECURSIVE FillBatch_passing_over(_, _, _, _, _, _, _)
\* Variant: a candidate that does not fit is passed over and the loop goes on.
FillBatch_passing_over(candidates, files, chosen, total_chars, max_chars_budget, max_files_cap, max_chars_per_file) ==
    IF candidates = <<>> \/ Len(chosen) >= max_files_cap THEN chosen
    ELSE LET path == Head(candidates)
             size == DictGet(files, path).content
             effective == _effective_file_size(size, max_chars_budget,
                                               max_chars_per_file)
         IN  IF total_chars + effective > max_chars_budget /\ chosen # <<>>
             THEN FillBatch_passing_over(
                      Tail(candidates), files, chosen, total_chars,
                      max_chars_budget, max_files_cap, max_chars_per_file)
             ELSE FillBatch_passing_over(
                      Tail(candidates), files, Append(chosen, path),
                      total_chars + effective, max_chars_budget,
                      max_files_cap, max_chars_per_file)

RECURSIVE FillBatch(_, _, _, _, _, _, _)
\* The loop over the sorted candidates.
FillBatch(candidates, files, chosen, total_chars, max_chars_budget, max_files_cap, max_chars_per_file) ==
    IF candidates = <<>> \/ Len(chosen) >= max_files_cap THEN chosen
    ELSE LET path == Head(candidates)
             size == DictGet(files, path).content
             effective == _effective_file_size(size, max_chars_budget,
                                               max_chars_per_file)
         IN  IF total_chars + effective > max_chars_budget /\ chosen # <<>>
             THEN chosen
             ELSE FillBatch(Tail(candidates), files, Append(chosen, path),
                            total_chars + effective, max_chars_budget,
                            max_files_cap, max_chars_per_file)

\* Variant: the candidates are not passed through should_skip_path.
select_next_batch_by_budget_no_skip(repo_files, already, max_chars_budget, max_files_cap, max_chars_per_file) ==
    LET keys == DictKeys(repo_files)
        keep == {p \in Range(keys) : p \notin already}
        candidates == SortSeq(FilterSeq(keys, keep), SortKeyLess)
    IN  FillBatch(candidates, repo_files, <<>>, 0, max_chars_budget,
                  max_files_cap, max_chars_per_file)

\* Variant: the candidates are not checked against the already-processed set.
select_next_batch_by_budget_no_already(repo_files, already, max_chars_budget, max_files_cap, max_chars_per_file) ==
    LET keys == DictKeys(repo_files)
        keep == {p \in Range(keys) : ~should_skip_path(p)}
        candidates == SortSeq(FilterSeq(keys, keep), SortKeyLess)
    IN  FillBatch(candidates, repo_files, <<>>, 0, max_chars_budget,
                  max_files_cap, max_chars_per_file)

select_next_batch_by_budget(repo_files, already, max_chars_budget, max_files_cap, max_chars_per_file) ==
    LET keys == DictKeys(repo_files)
        keep == {p \in Range(keys) : ~(p \in already \/ should_skip_path(p))}
        candidates == SortSeq(FilterSeq(keys, keep), SortKeyLess)
    IN  FillBatch(candidates, repo_files, <<>>, 0, max_chars_budget,
                  max_files_cap, max_chars_per_file)

---------------------------------------------------------------------------
(* nodes/selector.py *)

\* Variant: the selection is not told what was summarized already.
selector_node_ignoring_already(s, b) ==
    LET paths == select_next_batch_by_budget(
                     s.all_repo_files, {},
                     SUMMARY_MAX_CONTEXT_CHARS_PER_BATCH,
                     SUMMARY_MAX_FILES_PER_BATCH,
                     SUMMARY_MAX_CHARS_COUNT_PER_FILE)
    IN  NodeResult([s EXCEPT !.current_batch_paths = paths], "none", b, NoCall)

selector_node(s, b) ==
    LET all_files == s.all_repo_files
        already == s.already_summarized_paths
        paths == select_next_batch_by_budget(
                     all_files, Range(already),
                     SUMMARY_MAX_CONTEXT_CHARS_PER_BATCH,
                     SUMMARY_MAX_FILES_PER_BATCH,
                     SUMMARY_MAX_CHARS_COUNT_PER_FILE)
    IN  NodeResult([s EXCEPT !.current_batch_paths = paths], "none", b, NoCall)

---------------------------------------------------------------------------
(* nodes/batch_fetcher.py *)

\* len(text.strip()) of the blob stored under the path.
BlobContent(path) ==
    CASE path = "README.md" -> 100
      [] path = "src/a.py"  -> 30000
      [] path = "src/b.py"  -> 30000
      [] OTHER              -> 10

RECURSIVE _entries_for_batch(_, _)
\* [path_to_entry[p] for p in current_batch_paths
\*  if p in path_to_entry and path_to_entry[p].sha]
_entries_for_batch(repo_tree_entries, current_batch_paths) ==
    IF current_batch_paths = <<>> THEN <<>>
    ELSE LET p == Head(current_batch_paths)
             rest == _entries_for_batch(repo_tree_entries,
                                        Tail(current_batch_paths))
         IN  IF /\ \E i \in 1..Len(repo_tree_entries) :
                       repo_tree_entries[i].path = p
                /\ DictGet(repo_tree_entries, p).sha # "none"
             THEN <<DictGet(repo_tree_entries, p)>> \o rest
             ELSE rest

RECURSIVE DecodedFiles(_, _)
\* fetch_blob_contents_for_entries on success: a RepoFile for every entry whose
\* blob decodes as UTF-8 text, in entry order; binary blobs are dropped.
DecodedFiles(entries, binary) ==
    IF entries = <<>> THEN <<>>
    ELSE IF Head(entries).path \in binary
         THEN DecodedFiles(Tail(entries), binary)
         ELSE <<RepoFile(Head(entries).path, BlobContent(Head(entries).path))>>
              \o DecodedFiles(Tail(entries), binary)

batch_fetcher_node(s, b, outs, binary) ==
    LET fn == "fetch_blob_contents_for_entries"
        entries == _entries_for_batch(s.repo_tree_entries, s.current_batch_paths)
        c == circuit_call(fn, b[fn], outs)
        b2 == [b EXCEPT ![fn] = c.breaker]
    IN  IF s.repo_github_url = ""
        THEN NodeResult(
                 [s EXCEPT !.current_batch_files = <<>>,
                           !.errors = Append(@, [node |-> "batch_fetcher",
                                                 message |-> "missing repo_github_url"])],
                 "none", b, NoCall)
        ELSE IF entries = <<>>
        THEN NodeResult([s EXCEPT !.current_batch_files = <<>>], "none", b, NoCall)
        ELSE IF c.call.result = "ok"
        THEN NodeResult([s EXCEPT !.current_batch_files =
                                      DecodedFiles(entries, binary)],
                        "none", b2, c.call)
        ELSE IF c.call.result = "circuit_open"
        THEN NodeResult(s, "CircuitBreakerError", b2, c.call)
        \* except GitHubClientError: audit, then raise
        ELSE NodeResult(s, "GitHubClientError", b2, c.call)

---------------------------------------------------------------------------
(* nodes/summarizer.py *)

\* Variant: a success appends the chunk and leaves already_summarized_paths.
summarizer_node_chunk_only(s, b, outs, summary_text) ==
    LET fn == "summarize_batch"
        c == circuit_call(fn, b[fn], outs)
        b2 == [b EXCEPT ![fn] = c.breaker]
    IN  IF s.current_batch_paths = <<>>
        THEN NodeResult(s, "none", b, NoCall)
        ELSE IF c.call.result = "ok"
        THEN NodeResult(
                 [s EXCEPT !.summarized_chunks =
                               Append(@, [paths |-> s.current_batch_paths,
                                          summary |-> summary_text])],
                 "none", b2, c.call)
        ELSE IF c.call.result = "circuit_open"
        THEN NodeResult(s, "CircuitBreakerError", b2, c.call)
        ELSE NodeResult(
                 [s EXCEPT !.errors = Append(@, [node |-> "summarizer",
                                                 message |-> c.call.result])],
                 "none", b2, c.call)

\* Variant: a failed model call still marks the batch as summarized.
summarizer_node_failure_marks_processed(s, b, outs, summary_text) ==
    LET fn == "summarize_batch"
        current_paths == s.current_batch_paths
        c == circuit_call(fn, b[fn], outs)
        b2 == [b EXCEPT ![fn] = c.breaker]
    IN  IF current_paths = <<>>
        THEN NodeResult(s, "none", b, NoCall)
        ELSE IF c.call.result = "ok"
        THEN NodeResult(
                 [s EXCEPT !.summarized_chunks =
                               Append(@, [paths |-> current_paths,
                                          summary |-> summary_text]),
                           !.already_summarized_paths = @ \o current_paths],
                 "none", b2, c.call)
        ELSE IF c.call.result = "circuit_open"
        THEN NodeResult(s, "CircuitBreakerError", b2, c.call)
        ELSE NodeResult(
                 [s EXCEPT !.errors = Append(@, [node |-> "summarizer",
                                                 message |-> c.call.result]),
                           !.already_summarized_paths = @ \o current_paths],
                 "none", b2, c.call)

\* Variant: an empty batch is summarized like any other.
summarizer_node_empty_batch_chunk(s, b, outs, summary_text) ==
    LET fn == "summarize_batch"
        current_paths == s.current_batch_paths
        c == circuit_call(fn, b[fn], outs)
        b2 == [b EXCEPT ![fn] = c.breaker]
    IN  IF c.call.result = "ok"
        THEN NodeResult(
                 [s EXCEPT !.summarized_chunks =
                               Append(@, [paths |-> current_paths,
                                          summary |-> summary_text]),
                           !.already_summarized_paths = @ \o current_paths],
                 "none", b2, c.call)
        ELSE IF c.call.result = "circuit_open"
        THEN NodeResult(s, "CircuitBreakerError", b2, c.call)
        ELSE NodeResult(
                 [s EXCEPT !.errors = Append(@, [node |-> "summarizer",
                                                 message |-> c.call.result])],
                 "none", b2, c.call)

summarizer_node(s, b, outs, summary_text) ==
    LET fn == "summarize_batch"
        current_paths == s.current_batch_paths
        c == circuit_call(fn, b[fn], outs)
        b2 == [b EXCEPT ![fn] = c.breaker]
    IN  IF current_paths = <<>>
        THEN NodeResult(s, "none", b, NoCall)
        ELSE IF c.call.result = "ok"
        THEN NodeResult(
                 [s EXCEPT !.summarized_chunks =
                               Append(@, [paths |-> current_paths,
                                          summary |-> summary_text]),
                           !.already_summarized_paths = @ \o current_paths],
                 "none", b2, c.call)
        ELSE IF c.call.result = "circuit_open"
        \* CircuitBreakerError is not an LLMClientError: it leaves the node
        THEN NodeResult(s, "CircuitBreakerError", b2, c.call)
        ELSE NodeResult(
                 [s EXCEPT !.errors = Append(@, [node |-> "summarizer",
                                                 message |-> c.call.result])],
                 "none", b2, c.call)

---------------------------------------------------------------------------
(* nodes/decider.py *)

RECURSIVE JoinWords(_)
\* " ".join(previous_summaries).lower().split()
JoinWords(summaries) ==
    IF summaries = <<>> THEN <<>>
    ELSE Head(summaries) \o JoinWords(Tail(summaries))

\* HEURISTIC_OVERLAP_THRESHOLD = 0.7, as overlap / len(current_words) >= 7/10
\* Variant: the ratio is compared with > instead of >=.
_heuristic_continue_or_done_strict(previous_summaries, current_summary) ==
    LET combined == {Lower(w) : w \in Range(JoinWords(previous_summaries))}
        current_words == {Lower(w) : w \in Range(current_summary)}
        overlap == Cardinality({w \in current_words : w \in combined})
    IN  IF previous_summaries = <<>> THEN "continue"
        ELSE IF current_words = {} THEN "done"
        ELSE IF overlap * 10 > 7 * Cardinality(current_words) THEN "done"
        ELSE "continue"

_heuristic_continue_or_done(previous_summaries, current_summary) ==
    LET combined == {Lower(w) : w \in Range(JoinWords(previous_summaries))}
        current_words == {Lower(w) : w \in Range(current_summary)}
        overlap == Cardinality({w \in current_words : w \in combined})
    IN  IF previous_summaries = <<>> THEN "continue"
        ELSE IF current_words = {} THEN "done"
        ELSE IF overlap * 10 >= 7 * Cardinality(current_words) THEN "done"
        ELSE "continue"

\* What decide_continue_or_done (no retry, no breaker) gives the node: the
\* model's word, an LLMClientError (missing key, 401, 429, 4xx, 5xx, bad body),
\* or an httpx timeout / network exception, which the function does not map.
DeciderAnswers == {"continue", "done", "LLMClientError", "httpx.TransportError"}

\* Variant: an empty summarized_chunks answers continue.
decider_node_continue_on_empty(s, b, use_llm, answer) ==
    IF s.summarized_chunks = <<>>
    THEN NodeResult([s EXCEPT !.decision = "continue"], "none", b, NoCall)
    ELSE NodeResult([s EXCEPT !.decision = "done"], "none", b, NoCall)

\* Variant: the index is written on every decision, done included.
decider_node_always_advances(s, b, use_llm, answer) ==
    LET chunks == s.summarized_chunks
        planned == s.planned_batches
        index == s.current_batch_index
        heuristic == _heuristic_continue_or_done(
                         [i \in 1..(Len(chunks) - 1) |-> chunks[i].summary],
                         chunks[Len(chunks)].summary)
        content == IF ~use_llm THEN heuristic
                   ELSE IF answer = "LLMClientError" THEN heuristic
                   ELSE answer
        next_index == index + 1
        decision == IF content = "continue" /\ next_index >= Len(planned)
                    THEN "done" ELSE content
    IN  IF chunks = <<>>
        THEN NodeResult([s EXCEPT !.decision = "done"], "none", b, NoCall)
        ELSE IF use_llm /\ answer = "httpx.TransportError"
        THEN NodeResult(s, "httpx.TransportError", b, NoCall)
        ELSE NodeResult([s EXCEPT !.decision = decision,
                                  !.current_batch_index = next_index],
                        "none", b, NoCall)

\* Variant: the end of the plan is tested with > instead of >=.
decider_node_plan_end_off_by_one(s, b, use_llm, answer) ==
    LET chunks == s.summarized_chunks
        planned == s.planned_batches
        index == s.current_batch_index
        heuristic == _heuristic_continue_or_done(
                         [i \in 1..(Len(chunks) - 1) |-> chunks[i].summary],
                         chunks[Len(chunks)].summary)
        content == IF ~use_llm THEN heuristic
                   ELSE IF answer = "LLMClientError" THEN heuristic
                   ELSE answer
        next_index == index + 1
        decision == IF content = "continue" /\ next_index > Len(planned)
                    THEN "done" ELSE content
    IN  IF chunks = <<>>
        THEN NodeResult([s EXCEPT !.decision = "done"], "none", b, NoCall)
        ELSE IF use_llm /\ answer = "httpx.TransportError"
        THEN NodeResult(s, "httpx.TransportError", b, NoCall)
        ELSE IF decision = "continue"
        THEN NodeResult([s EXCEPT !.decision = decision,
                                  !.current_batch_index = next_index],
                        "none", b, NoCall)
        ELSE NodeResult([s EXCEPT !.decision = decision], "none", b, NoCall)

decider_node(s, b, use_llm, answer) ==
    LET chunks == s.summarized_chunks
        planned == s.planned_batches
        index == s.current_batch_index
        current_summary == chunks[Len(chunks)].summary
        previous_summaries ==
            [i \in 1..(Len(chunks) - 1) |-> chunks[i].summary]
        heuristic == _heuristic_continue_or_done(previous_summaries,
                                                 current_summary)
        content == IF ~use_llm THEN heuristic
                   ELSE IF answer = "LLMClientError" THEN heuristic
                   ELSE answer
        next_index == index + 1
        decision == IF content = "continue" /\ next_index >= Len(planned)
                    THEN "done" ELSE content
    IN  IF chunks = <<>>
        THEN NodeResult([s EXCEPT !.decision = "done"], "none", b, NoCall)
        ELSE IF use_llm /\ answer = "httpx.TransportError"
        THEN NodeResult(s, "httpx.TransportError", b, NoCall)
        ELSE IF decision = "continue"
        THEN NodeResult([s EXCEPT !.decision = decision,
                                  !.current_batch_index = next_index],
                        "none", b, NoCall)
        ELSE NodeResult([s EXCEPT !.decision = decision], "none", b, NoCall)

---------------------------------------------------------------------------
(* nodes/synthesizer.py *)

\* [{"folder": label, "summary": summary}] for each chunk, in order; the label
\* is made of the first two paths of the chunk.
_chunks_to_folder_summaries(chunks) ==
    [i \in 1..Len(chunks) |->
        [folder |-> Prefix(chunks[i].paths, 2), summary |-> chunks[i].summary]]

\* The call record of the synthesis call, with the argument it was given and
\* the parsed reply of a successful call.
SynthesisCall(call, folder_summaries, final) ==
    [fn |-> call.fn, outcomes |-> call.outcomes, attempts |-> call.attempts,
     result |-> call.result, folder_summaries |-> folder_summaries,
     reply |-> IF call.result = "ok" THEN <<final>> ELSE <<>>]

\* Variant: only the latest chunk is handed to the synthesis call.
synthesizer_node_last_chunk_only(s, b, outs, final) ==
    LET fn == "summarize_project_from_folders"
        chunks == s.summarized_chunks
        folder_summaries ==
            _chunks_to_folder_summaries(<<chunks[Len(chunks)]>>)
        c == circuit_call(fn, b[fn], outs)
        b2 == [b EXCEPT ![fn] = c.breaker]
        call == SynthesisCall(c.call, folder_summaries, final)
    IN  IF chunks = <<>>
        THEN NodeResult([s EXCEPT !.final_summary = <<EmptyFinal>>],
                        "none", b, NoCall)
        ELSE IF c.call.result = "ok"
        THEN NodeResult([s EXCEPT !.final_summary = <<final>>], "none", b2, call)
        ELSE IF c.call.result = "circuit_open"
        THEN NodeResult(s, "CircuitBreakerError", b2, call)
        ELSE NodeResult(
                 [s EXCEPT !.errors = Append(@, [node |-> "synthesizer",
                                                 message |-> c.call.result])],
                 "none", b2, call)

synthesizer_node(s, b, outs, final) ==
    LET fn == "summarize_project_from_folders"
        chunks == s.summarized_chunks
        folder_summaries == _chunks_to_folder_summaries(chunks)
        c == circuit_call(fn, b[fn], outs)
        b2 == [b EXCEPT ![fn] = c.breaker]
        call == SynthesisCall(c.call, folder_summaries, final)
    IN  IF chunks = <<>>
        THEN NodeResult([s EXCEPT !.final_summary = <<EmptyFinal>>],
                        "none", b, NoCall)
        ELSE IF c.call.result = "ok"
        THEN NodeResult([s EXCEPT !.final_summary = <<final>>], "none", b2, call)
        ELSE IF c.call.result = "circuit_open"
        THEN NodeResult(s, "CircuitBreakerError", b2, call)
        ELSE NodeResult(
                 [s EXCEPT !.errors = Append(@, [node |-> "synthesizer",
                                                 message |-> c.call.result])],
                 "none", b2, call)

---------------------------------------------------------------------------
(* workflow.py *)

\* Variant: the two branches exchanged.
_route_after_decider_swapped(s) ==
    IF s.decision = "continue" THEN "synthesizer" ELSE "selector"

_route_after_decider(s) ==
    IF s.decision = "continue" THEN "selector" ELSE "synthesizer"

\* add_edge(...): the node the graph runs after `node` has returned.
NextNode(node, s) ==
    CASE node = "selector"      -> "batch_fetcher"
      [] node = "batch_fetcher" -> "summarizer"
      [] node = "summarizer"    -> "decider"
      [] node = "decider"       -> _route_after_decider(s)
      [] node = "synthesizer"   -> "END"

---------------------------------------------------------------------------
(* clients/llm_client.py: the batch plan *)

RECURSIVE _parse_plan_batches_response_keep_empty(_, _, _)
\* Variant: a batch left with no allowed path is kept.
_parse_plan_batches_response_keep_empty(raw, allowed_paths, max_batches) ==
    IF raw = <<>> \/ max_batches <= 0 THEN <<>>
    ELSE <<FilterSeq(Head(raw), allowed_paths)>>
         \o _parse_plan_batches_response_keep_empty(Tail(raw), allowed_paths,
                                                    max_batches - 1)

RECURSIVE _parse_plan_batches_response(_, _, _)
\* for batch in raw[:max_batches]: keep the allowed paths, drop empty batches
_parse_plan_batches_response(raw, allowed_paths, max_batches) ==
    IF raw = <<>> \/ max_batches <= 0 THEN <<>>
    ELSE LET valid == FilterSeq(Head(raw), allowed_paths)
             rest == _parse_plan_batches_response(Tail(raw), allowed_paths,
                                                  max_batches - 1)
         IN  IF valid # <<>> THEN <<valid>> \o rest ELSE rest

\* The "batches" array of the model's reply (<<>> also stands for a reply that
\* is not a JSON object with a list under "batches").
PlanReplies ==
    {<<>>,
     <<<<"README.md", "src/a.py">>, <<"src/b.py">>>>,
     <<<<"ghost.py">>, <<"src/a.py", "Node_Modules/x.js">>, <<"README.md">>,
       <<"src/b.py">>>>}

---------------------------------------------------------------------------
(* main.py *)

\* Listings fetch_repo_tree may return (blob entries, in listing order).
TreeListings ==
    {<<>>,
     <<TreeEntry("README.md", 100, "sha1"), TreeEntry("src/a.py", 30000, "sha2"),
       TreeEntry("src/b.py", 30000, "sha3"),
       TreeEntry("Node_Modules/x.js", 10, "sha4")>>,
     <<TreeEntry("README.md", 100, "sha1"), TreeEntry("src/a.py", 30000, "none")>>}

\* What fetch_repo_tree (not decorated) does: a listing or a GitHubClientError.
TreeOutcomes == {"ok", "not_found", "timed_out"}

\* _github_error_to_status_and_message
_github_error_to_status(kind) == IF kind = "not_found" THEN 404 ELSE 502

RECURSIVE EligibleEntries(_)
\* [e for e in tree_entries if not should_skip_path(e.path)]
EligibleEntries(tree_entries) ==
    IF tree_entries = <<>> THEN <<>>
    ELSE IF should_skip_path(Head(tree_entries).path)
         THEN EligibleEntries(Tail(tree_entries))
         ELSE <<Head(tree_entries)>> \o EligibleEntries(Tail(tree_entries))

EntryPaths(entries) == [i \in 1..Len(entries) |-> entries[i].path]

NoResponse == [status |-> 0, final |-> <<>>, message |-> "", errors |-> <<>>]

ErrorResponse(status, message) ==
    [status |-> status, final |-> <<>>, message |-> message, errors |-> <<>>]

\* The state before the first run.
NoRun == InitialState("", <<>>, <<>>, <<>>)

\* _run_structure_and_plan_step: (tree_entries, planned_batches) or an error
\* response.
_run_structure_and_plan_step(b, tree_outcome, listing, outs, reply) ==
    LET fn == "plan_batches_from_structure"
        entries == EligibleEntries(listing)
        paths == Prefix(EntryPaths(entries), PLAN_BATCHES_MAX_PATHS)
        c == circuit_call(fn, b[fn], outs)
        b2 == [b EXCEPT ![fn] = c.breaker]
    IN  IF tree_outcome # "ok"
        THEN [ok |-> FALSE, breaker |-> b, call |-> NoCall,
              entries |-> <<>>, planned |-> <<>>,
              response |-> ErrorResponse(_github_error_to_status(tree_outcome),
                                         tree_outcome)]
        ELSE IF entries = <<>>
        THEN [ok |-> FALSE, breaker |-> b, call |-> NoCall,
              entries |-> <<>>, planned |-> <<>>,
              response |-> ErrorResponse(404, "empty")]
        ELSE IF c.call.result = "ok"
        THEN [ok |-> TRUE, breaker |-> b2, call |-> c.call,
              entries |-> entries,
              planned |-> _parse_plan_batches_response(
                              reply, Range(paths), PLAN_BATCHES_MAX_BATCHES),
              response |-> NoResponse]
        ELSE [ok |-> FALSE, breaker |-> b2, call |-> c.call,
              entries |-> <<>>, planned |-> <<>>,
              response |-> ErrorResponse(
                  IF c.call.result = "permanent" THEN 502 ELSE 503,
                  c.call.result)]

\* _run_summary_graph_step after graph.ainvoke, then summarize's response.
_run_summary_graph_step(s, exc) ==
    IF exc # "none" THEN ErrorResponse(502, exc)
    ELSE IF s.errors # <<>>
    THEN ErrorResponse(502, s.errors[Len(s.errors)].message)
    ELSE [status |-> 200, final |-> s.final_summary, message |-> "",
          errors |-> <<>>]

---------------------------------------------------------------------------
(* The state machine *)

GraphNodes == {"selector", "batch_fetcher", "summarizer", "decider", "synthesizer"}

\* The RepoFile list of a tree listing: what a state carries under
\* all_repo_files when the nodes are driven over a state that has the key.
\* run_summary_graph never sets it.
RepoFilesOf(listing) ==
    [i \in 1..Len(listing) |->
        RepoFile(listing[i].path, BlobContent(listing[i].path))]

\* Concurrent runs (requests served at the same time by the event loop).
Callers == {"run1", "run2"}

\* What a run is doing: the function it has called, the attempts made and the
\* result ("pending" while the call is under way), the number of calls it has
\* started, and whether the call was let through by a breaker whose recovery
\* timeout had elapsed (state HALF_OPEN).
IdleCaller == [fn |-> "none", attempts |-> 0, result |-> "none", calls |-> 0,
               probe |-> FALSE]

NoInflight == [c \in Callers |-> IdleCaller]

NoFetch == [status |-> "none"]

NoUnit == [op |-> "none"]

SideIdle ==
    /\ inflight = NoInflight
    /\ history = <<>>
    /\ fetch = NoFetch
    /\ unit = NoUnit
    /\ runs = <<>>

Init ==
    /\ SideIdle
    /\ pc = "idle"
    /\ state = NoRun
    /\ settings \in [DECIDER_USE_LLM : BOOLEAN]
    /\ breaker = [fn \in WrappedFunctions |-> ClosedBreaker]
    /\ last_call = NoCall
    /\ raised = "none"
    /\ response = NoResponse
    /\ requests = 0
    /\ node_trace = <<>>

\* POST /summarize up to the start of the graph: structure and plan, then the
\* initial state of run_summary_graph (or the error response).
StartRequest(with_files, limit) ==
    /\ pc = "idle"
    /\ requests < limit
    /\ \E tree_outcome \in TreeOutcomes, listing \in TreeListings,
          outs \in OutcomeSeqs, reply \in PlanReplies :
          LET r == _run_structure_and_plan_step(breaker, tree_outcome, listing,
                                                outs, reply)
          IN  /\ breaker' = r.breaker
              /\ last_call' = r.call
              /\ pc' = IF r.ok THEN "selector" ELSE "idle"
              /\ state' = IF r.ok
                          THEN InitialState("url", r.entries, r.planned,
                                            IF with_files
                                            THEN RepoFilesOf(listing)
                                            ELSE <<>>)
                          ELSE NoRun
              /\ response' = r.response
    /\ requests' = requests + 1
    /\ raised' = "none"
    /\ node_trace' = <<>>
    /\ UNCHANGED <<settings, side_vars>>

\* The graph engine runs one node and merges what it returned.
ApplyNode(node, r) ==
    /\ Len(node_trace) < MaxTrace
    /\ state' = r.state
    /\ breaker' = r.breaker
    /\ last_call' = r.call
    /\ raised' = r.raised
    /\ pc' = IF r.raised # "none" THEN "raised" ELSE NextNode(node, r.state)
    /\ node_trace' = Append(node_trace, [node |-> node,
                                         decision |-> r.state.decision])
    /\ UNCHANGED <<settings, response, requests, side_vars>>

Selector ==
    /\ pc = "selector"
    /\ ApplyNode("selector", selector_node(state, breaker))

BatchFetcher ==
    /\ pc = "batch_fetcher"
    /\ \E outs \in OutcomeSeqs, binary \in SUBSET {"README.md"} :
          ApplyNode("batch_fetcher",
                    batch_fetcher_node(state, breaker, outs, binary))

Summarizer ==
    /\ pc = "summarizer"
    /\ \E outs \in OutcomeSeqs, summary_text \in SummaryTexts :
          ApplyNode("summarizer",
                    summarizer_node(state, breaker, outs, summary_text))

Decider ==
    /\ pc = "decider"
    /\ \E answer \in DeciderAnswers :
          ApplyNode("decider",
                    decider_node(state, breaker, settings.DECIDER_USE_LLM, answer))

Synthesizer ==
    /\ pc = "synthesizer"
    /\ \E outs \in OutcomeSeqs, final \in FinalResults :
          ApplyNode("synthesizer",
                    synthesizer_node(state, breaker, outs, final))

\* graph.ainvoke has returned or raised: _run_summary_graph_step and summarize
\* build the response.
Respond ==
    /\ pc \in {"END", "raised"}
    /\ response' = _run_summary_graph_step(state, raised)
    /\ pc' = "idle"
    /\ last_call' = NoCall
    \* the run's state is discarded with the request
    /\ state' = NoRun
    /\ raised' = "none"
    /\ node_trace' = <<>>
    /\ UNCHANGED <<settings, breaker, requests, side_vars>>

\* recovery_timeout (60 s) elapses for an open breaker.
Tick ==
    /\ \E fn \in WrappedFunctions :
          /\ breaker[fn].open /\ ~breaker[fn].cooled
          /\ breaker' = [breaker EXCEPT ![fn].cooled = TRUE]
    /\ UNCHANGED <<pc, state, settings, last_call, raised, response, requests,
                   node_trace, side_vars>>

GraphStep == Selector \/ BatchFetcher \/ Summarizer \/ Decider \/ Synthesizer

\* The program: run_summary_graph builds the state without all_repo_files.
Next == StartRequest(FALSE, MaxRequests) \/ GraphStep \/ Respond \/ Tick

Spec == Init /\ [][Next]_vars

\* The nodes driven over a state that carries all_repo_files.
NextNodes ==
    \/ \E with_files \in BOOLEAN : StartRequest(with_files, MaxNodeRequests)
    \/ GraphStep \/ Respond \/ Tick

\* Breaker states earlier requests can have left behind: all closed, or one
\* breaker one failure short of the threshold, or one breaker open.
BreakerPresets ==
    {[fn \in WrappedFunctions |-> ClosedBreaker]}
    \cup {[fn \in WrappedFunctions |->
              IF fn = f THEN [failure_count |-> n,
                              open |-> n >= FAILURE_THRESHOLD, cooled |-> FALSE]
              ELSE ClosedBreaker] :
          f \in WrappedFunctions,
          n \in {FAILURE_THRESHOLD - 1, FAILURE_THRESHOLD}}

InitNodes ==
    /\ SideIdle
    /\ pc = "idle"
    /\ state = NoRun
    /\ settings \in [DECIDER_USE_LLM : BOOLEAN]
    /\ breaker \in BreakerPresets
    /\ last_call = NoCall
    /\ raised = "none"
    /\ response = NoResponse
    /\ requests = 0
    /\ node_trace = <<>>

SpecNodes == InitNodes /\ [][NextNodes]_vars

---------------------------------------------------------------------------
(* Properties *)

NodesOf(trace) == [i \in 1..Len(trace) |-> trace[i].node]

Runs(node, trace) == Cardinality({i \in 1..Len(trace) : trace[i].node = node})

C2_NodeOrder ==
    LET t == node_trace
        n == Len(t)
        After(i) ==
            CASE t[i].node = "selector"      -> "batch_fetcher"
              [] t[i].node = "batch_fetcher" -> "summarizer"
              [] t[i].node = "summarizer"    -> "decider"
              [] t[i].node = "decider"       ->
                     IF t[i].decision = "continue" THEN "selector"
                     ELSE "synthesizer"
              [] OTHER                        -> "END"
    IN  /\ (n > 0 => t[1].node = "selector")
        /\ (n = 0 /\ pc \in GraphNodes => pc = "selector")
        /\ \A i \in 1..(n - 1) : t[i + 1].node = After(i)
        /\ (n > 0 /\ pc # "raised" => pc = After(n))
        /\ \A i \in 1..n : \A j \in (i + 1)..n :
               t[i].node = "decider" /\ t[i].decision = "done"
                   => t[j].node # "selector"
        /\ Runs("synthesizer", t) <= 1
        /\ (pc = "END" => Runs("synthesizer", t) = 1)

C2_Witness ==
    /\ pc = "END"
    /\ \E i \in 1..Len(node_trace) :
           node_trace[i].node = "decider" /\ node_trace[i].decision = "continue"

ChunkPaths(chunks) == UNION {Range(chunks[i].paths) : i \in 1..Len(chunks)}

\* C3: between two nodes of a run the set of paths in already_summarized_paths
\* is the union of the paths lists of summarized_chunks, and a SUMMARIZE step
\* either appends one chunk and extends already_summarized_paths with exactly
\* that chunk's paths, or changes neither of the two.
C3_ChunksAndAlreadyTogether ==
    [][/\ Range(state'.already_summarized_paths)
            = ChunkPaths(state'.summarized_chunks)
       /\ (pc = "summarizer" =>
              LET chunks == state.summarized_chunks
                  already == state.already_summarized_paths
                  chunks2 == state'.summarized_chunks
                  already2 == state'.already_summarized_paths
              IN  \/ chunks2 = chunks /\ already2 = already
                  \/ /\ Len(chunks2) = Len(chunks) + 1
                     /\ SubSeq(chunks2, 1, Len(chunks)) = chunks
                     /\ already2 = already \o chunks2[Len(chunks2)].paths
                     /\ chunks2[Len(chunks2)].paths # <<>>)]_vars

C3_Witness ==
    /\ pc = "decider"
    /\ Len(state.summarized_chunks) >= 1
    /\ \E i \in 1..Len(state.errors) : state.errors[i].node = "summarizer"

\* C4: no path appears in the paths lists of two different entries of
\* summarized_chunks, whatever the validated plan.
C4_ChunkPathsDisjoint ==
    LET chunks == state.summarized_chunks
    IN  \A i \in 1..Len(chunks) : \A j \in (i + 1)..Len(chunks) :
            Range(chunks[i].paths) \cap Range(chunks[j].paths) = {}

C4_Witness ==
    /\ Len(state.summarized_chunks) >= 2
    /\ Len(state.planned_batches) >= 3

C6_IterationCountCountsDecide ==
    /\ state.iteration_count = Runs("decider", node_trace)
    /\ state.iteration_count <= SUMMARY_MAX_ITERATIONS

\* C7: a run that has recorded node errors and has come out of SYNTHESIZE with
\* a final result is answered with that final result and the error list.
C7_DegradedResultReturned ==
    [][(/\ pc = "END" /\ pc' = "idle"
        /\ state.errors # <<>> /\ state.final_summary # <<>>) =>
          /\ response'.status = 200
          /\ response'.final = state.final_summary
          /\ response'.errors = state.errors]_vars

\* C8: when the model call of SUMMARIZE or SYNTHESIZE fails because the
\* retries are exhausted or because the circuit is open, the node appends one
\* entry to errors and the run goes on with the next node.
C8_ModelCallFailureRecorded ==
    [][(/\ pc \in {"summarizer", "synthesizer"}
        /\ last_call'.fn \in {"summarize_batch", "summarize_project_from_folders"}
        /\ \/ last_call'.result = "circuit_open"
           \/ (last_call'.result = "transient"
               /\ last_call'.attempts = RETRY_ATTEMPTS)) =>
          /\ Len(state'.errors) = Len(state.errors) + 1
          /\ SubSeq(state'.errors, 1, Len(state.errors)) = state.errors
          /\ state'.errors[Len(state'.errors)].node = pc
          /\ raised' = "none"
          /\ pc' = NextNode(pc, state')]_vars

\* C9: when fetch_blob_contents_for_entries fails in FETCH (permanent error,
\* transient error after the retries, or open circuit), the node appends one
\* entry to errors, leaves current_batch_files empty, and SUMMARIZE runs next.
C9_FetchFailureRecorded ==
    [][(/\ pc = "batch_fetcher"
        /\ last_call'.fn = "fetch_blob_contents_for_entries"
        /\ last_call'.result # "ok") =>
          /\ Len(state'.errors) = Len(state.errors) + 1
          /\ state'.errors[Len(state'.errors)].node = "batch_fetcher"
          /\ state'.current_batch_files = <<>>
          /\ raised' = "none"
          /\ pc' = "summarizer"]_vars

\* C10: a wrapped call that the breaker admits makes between one and
\* RETRY_ATTEMPTS attempts; every attempt but the last failed with a transient
\* error; the last attempt is a success, a permanent failure, or the
\* RETRY_ATTEMPTS-th transient failure, and its outcome is what the caller gets.
C10_AtMostThreeAttempts ==
    (last_call.fn # "none" /\ last_call.result # "circuit_open") =>
        LET n == last_call.attempts
            outs == last_call.outcomes
        IN  /\ n \in 1..RETRY_ATTEMPTS
            /\ Len(outs) = n
            /\ \A i \in 1..(n - 1) : outs[i] = "transient"
            /\ (outs[n] = "transient" => n = RETRY_ATTEMPTS)
            /\ last_call.result = outs[n]

C10_Witness ==
    /\ last_call.fn = "summarize_batch"
    /\ last_call.attempts = RETRY_ATTEMPTS
    /\ last_call.result = "transient"
    /\ pc = "decider"

---------------------------------------------------------------------------
(* The call layer under concurrency: runs served at the same time share the *)
(* breakers.  The decorator reads CircuitBreaker.opened, then awaits the     *)
(* retrying function, then records the outcome; other runs interleave at the *)
(* await.                                                                    *)

MaxCallsPerRun == 1

\* Every function that makes an outbound request.
CallShapes ==
    WrappedFunctions \cup {"fetch_repo_tree", "decide_continue_or_done"}

\* The external service a call shape talks to.
Dependency(fn) ==
    IF fn \in {"fetch_repo_tree", "fetch_blob_contents_for_entries"}
    THEN "github" ELSE "llm"

\* fetch_repo_tree and decide_continue_or_done carry no decorator: the body
\* runs once and its outcome is the caller's.
undecorated_call(outs) == [attempts |-> 1, result |-> outs[1]]

\* The decorator's entry: an open breaker raises CircuitBreakerError at once,
\* otherwise the call is under way.
BeginCall(c, fn) ==
    /\ inflight[c].result # "pending"
    /\ inflight[c].calls < MaxCallsPerRun
    /\ LET rejected == fn \in WrappedFunctions /\ opened(breaker[fn])
       IN  /\ inflight' = [inflight EXCEPT ![c] =
                  [fn |-> fn, attempts |-> 0,
                   result |-> IF rejected THEN "circuit_open" ELSE "pending",
                   calls |-> @.calls + 1,
                   probe |-> /\ fn \in WrappedFunctions
                             /\ breaker[fn].open /\ breaker[fn].cooled]]
           /\ history' = IF rejected
                         THEN Append(history, [fn |-> fn, result |-> "circuit_open"])
                         ELSE history
    /\ UNCHANGED <<pc, state, settings, breaker, last_call, raised, response,
                   requests, node_trace, fetch, unit, runs>>

\* The call under way comes back: the retrying loop has run (or the bare body,
\* for an undecorated function) and the breaker of the function records it.
EndCall(c, outs) ==
    /\ inflight[c].result = "pending"
    /\ LET fn == inflight[c].fn
           r == IF fn \in WrappedFunctions THEN tenacity_retry(outs, 1)
                ELSE undecorated_call(outs)
       IN  /\ inflight' = [inflight EXCEPT ![c].attempts = r.attempts,
                                           ![c].result = r.result]
           /\ history' = Append(history, [fn |-> fn, result |-> r.result])
           /\ breaker' = IF fn \notin WrappedFunctions THEN breaker
                         ELSE IF is_failure(r.result)
                         THEN [breaker EXCEPT ![fn] = call_failed(@)]
                         ELSE [breaker EXCEPT ![fn] = call_succeeded(@)]
    /\ UNCHANGED <<pc, state, settings, last_call, raised, response, requests,
                   node_trace, fetch, unit, runs>>

NextCalls ==
    \/ \E c \in Callers, fn \in CallShapes : BeginCall(c, fn)
    \/ \E c \in Callers, outs \in OutcomeSeqs : EndCall(c, outs)
    \/ Tick

\* What earlier calls have left: nothing, or one function with
\* FAILURE_THRESHOLD - 1 or FAILURE_THRESHOLD failed calls in a row.
InitCalls ==
    /\ pc = "idle"
    /\ state = NoRun
    /\ settings = [DECIDER_USE_LLM |-> TRUE]
    /\ last_call = NoCall
    /\ raised = "none"
    /\ response = NoResponse
    /\ requests = 0
    /\ node_trace = <<>>
    /\ fetch = NoFetch
    /\ unit = NoUnit
    /\ runs = <<>>
    /\ inflight = NoInflight
    /\ \/ /\ breaker = [fn \in WrappedFunctions |-> ClosedBreaker]
          /\ history = <<>>
       \/ \E f \in WrappedFunctions,
             n \in {FAILURE_THRESHOLD - 1, FAILURE_THRESHOLD} :
             /\ breaker = [fn \in WrappedFunctions |->
                              IF fn = f
                              THEN [failure_count |-> n,
                                    open |-> n >= FAILURE_THRESHOLD,
                                    cooled |-> FALSE]
                              ELSE ClosedBreaker]
             /\ history = [i \in 1..n |-> [fn |-> f, result |-> "permanent"]]

SpecCalls == InitCalls /\ [][NextCalls]_vars

---------------------------------------------------------------------------
(* Properties of the call layer *)

RECURSIVE TrailingFailures(_, _)
\* The number of failed calls at the end of the log among the calls to the
\* functions in fns that made a request, back to the last success.
TrailingFailures(log, fns) ==
    IF log = <<>> THEN 0
    ELSE LET last == log[Len(log)]
             rest == SubSeq(log, 1, Len(log) - 1)
         IN  IF last.fn \notin fns \/ last.result = "circuit_open"
             THEN TrailingFailures(rest, fns)
             ELSE IF last.result = "ok" THEN 0
             ELSE 1 + TrailingFailures(rest, fns)

ShapesOf(dep) == {fn \in CallShapes : Dependency(fn) = dep}

\* Run c starts a call in this step.
Begins(c) == inflight'[c].calls = inflight[c].calls + 1

\* No recovery timeout of an open breaker has elapsed.
NoCooldownElapsed == \A fn \in WrappedFunctions : ~breaker[fn].cooled

\* C11: once the last FAILURE_THRESHOLD calls that reached a dependency have
\* all failed, with no success in between and whichever runs made them, a call
\* to that dependency started before the cooldown has elapsed fails at once
\* with the open-circuit error and makes no attempt.
C11_OpenAfterFiveFailures ==
    [][\A c \in Callers :
          (/\ Begins(c)
           /\ NoCooldownElapsed
           /\ TrailingFailures(history, ShapesOf(Dependency(inflight'[c].fn)))
                  >= FAILURE_THRESHOLD) =>
              /\ inflight'[c].result = "circuit_open"
              /\ inflight'[c].attempts = 0]_vars

\* C12: after the cooldown of an open breaker exactly one probe is let
\* through: while it is under way a call to the same function from another run
\* fails at once; a probe that succeeds closes the breaker, a probe that fails
\* leaves it open with the cooldown started again.
C12_SingleProbe ==
    [][\A c \in Callers :
          /\ (/\ Begins(c)
              /\ \E d \in Callers \ {c} :
                     /\ inflight[d].result = "pending"
                     /\ inflight[d].probe
                     /\ inflight[d].fn = inflight'[c].fn) =>
                 inflight'[c].result = "circuit_open"
          /\ (/\ inflight[c].result = "pending"
              /\ inflight[c].probe
              /\ inflight'[c].result # "pending"
              /\ breaker[inflight[c].fn].open
              /\ breaker[inflight[c].fn].cooled) =>
                 LET b == breaker'[inflight[c].fn]
                 IN  IF inflight'[c].result = "ok"
                     THEN ~b.open /\ b.failure_count = 0
                     ELSE b.open /\ ~b.cooled]_vars

\* The decorated functions that call the same service as fn.
BreakersOf(fn) == {g \in WrappedFunctions : Dependency(g) = Dependency(fn)}

\* Run c's call comes back in this step.
Ends(c) == inflight[c].result = "pending" /\ inflight'[c].result # "pending"

\* C13: the call shapes of one dependency share one breaker: a failed call of
\* a decorated function is counted by the breaker of every decorated function
\* of the same dependency, and while any of them is open a call of any
\* decorated function of that dependency fails at once.
C13_OneBreakerPerDependency ==
    [][\A c \in Callers :
          /\ (/\ Begins(c)
              /\ inflight'[c].fn \in WrappedFunctions
              /\ \E g \in BreakersOf(inflight'[c].fn) : opened(breaker[g])) =>
                 inflight'[c].result = "circuit_open"
          /\ (/\ Ends(c)
              /\ inflight[c].fn \in WrappedFunctions
              /\ is_failure(inflight'[c].result)) =>
                 \A g \in BreakersOf(inflight[c].fn) :
                     breaker'[g].failure_count = breaker[g].failure_count + 1]_vars

\* C14: every call shape, decorated or not, is under the retry and breaker
\* policy: a call is surfaced as a transient failure only after
\* RETRY_ATTEMPTS attempts, a failed call is counted by a breaker of its
\* dependency, and a call started while every breaker of its dependency is
\* open fails at once.
C14_EveryCallShapeWrapped ==
    [][\A c \in Callers :
          /\ (Ends(c) /\ inflight'[c].result = "transient") =>
                 inflight'[c].attempts = RETRY_ATTEMPTS
          /\ (Ends(c) /\ is_failure(inflight'[c].result)) =>
                 \E g \in BreakersOf(inflight[c].fn) :
                     breaker'[g].failure_count = breaker[g].failure_count + 1
          /\ (/\ Begins(c)
              /\ \A g \in BreakersOf(inflight'[c].fn) : opened(breaker[g])) =>
                 inflight'[c].result = "circuit_open"]_vars

---------------------------------------------------------------------------
(* Failure classification: what each call shape makes of what the network   *)
(* or the configuration gave it.                                            *)

\* The status of the HTTP response, or the httpx exception of the request.
\* "protocol_error" is an httpx.RequestError that is neither a
\* TimeoutException nor a NetworkError (e.g. RemoteProtocolError).
HttpOutcomes ==
    {"http_200", "http_400", "http_401", "http_403", "http_404", "http_429",
     "http_500", "http_503", "timeout", "network_error", "protocol_error"}

\* What a call can meet: a malformed repository URL (repository API), a
\* missing API key, base URL or model name (model API), or an HttpOutcome.
RawOutcomesOf(shape) ==
    HttpOutcomes \cup (IF Dependency(shape) = "github" THEN {"invalid_url"}
                       ELSE {"missing_api_key"})

StatusCode(raw) ==
    CASE raw = "http_200" -> 200
      [] raw = "http_400" -> 400
      [] raw = "http_401" -> 401
      [] raw = "http_403" -> 403
      [] raw = "http_404" -> 404
      [] raw = "http_429" -> 429
      [] raw = "http_500" -> 500
      [] raw = "http_503" -> 503
      [] OTHER            -> 0

\* fetch_repo_tree and _fetch_single_blob: _parse_github_url first, then the
\* except clauses for HTTPStatusError, TimeoutException and RequestError.
github_call_outcome(raw) ==
    IF raw = "invalid_url" THEN "permanent"
    ELSE IF raw \in {"timeout"} THEN "transient"
    ELSE IF raw \in {"network_error", "protocol_error"} THEN "transient"
    ELSE IF StatusCode(raw) = 200 THEN "ok"
    ELSE IF StatusCode(raw) = 404 THEN "permanent"
    ELSE IF StatusCode(raw) = 403 THEN "transient"
    ELSE IF StatusCode(raw) >= 500 THEN "transient"
    ELSE "permanent"

\* _parse_chat_response_content on the status of the response.
_parse_chat_response_content(status_code) ==
    IF status_code = 401 THEN "permanent"
    ELSE IF status_code = 429 THEN "transient"
    ELSE IF status_code >= 500 THEN "transient"
    ELSE IF status_code >= 400 THEN "permanent"
    ELSE "ok"

\* A model call: the configuration checks, then _post_messages; the decorated
\* functions map TimeoutException and NetworkError to a transient
\* LLMClientError, decide_continue_or_done has no except clause.  "escaped"
\* is an httpx exception that reaches the caller as it is.
llm_call_outcome(shape, raw) ==
    IF raw = "missing_api_key" THEN "permanent"
    ELSE IF raw \in {"timeout", "network_error"}
    THEN IF shape = "decide_continue_or_done" THEN "escaped" ELSE "transient"
    ELSE IF raw = "protocol_error" THEN "escaped"
    ELSE _parse_chat_response_content(StatusCode(raw))

\* One attempt of the body of a call shape.
attempt_outcome(shape, raw) ==
    IF Dependency(shape) = "github" THEN github_call_outcome(raw)
    ELSE llm_call_outcome(shape, raw)

\* The whole call when every attempt meets the same raw outcome: the attempts
\* made, what the caller gets, and the requests sent (none when the
\* configuration check or the URL parse raises before the request).
classified_call(shape, raw) ==
    LET out == attempt_outcome(shape, raw)
        r == IF shape \in WrappedFunctions
             THEN tenacity_retry([i \in 1..RETRY_ATTEMPTS |-> out], 1)
             ELSE undecorated_call(<<out>>)
    IN  [attempts |-> r.attempts, result |-> r.result,
         requests |-> IF raw \in {"invalid_url", "missing_api_key"} THEN 0
                      ELSE r.attempts]

---------------------------------------------------------------------------
(* Pure functions called on their own: the arguments are drawn at the start *)
(* and one step applies the function.                                       *)

\* repo_files arguments: none; a listing with a skipped directory; a repeated
\* path, an empty file and a file larger than any budget; two files only.
SelectionFileLists ==
    {<<>>,
     <<RepoFile("README.md", 100), RepoFile("src/a.py", 30000),
       RepoFile("src/b.py", 30000), RepoFile("Node_Modules/x.js", 10)>>,
     <<RepoFile("src/a.py", 30000), RepoFile("README.md", 0),
       RepoFile("src/a.py", 10), RepoFile("Node_Modules/x.js", 10),
       RepoFile("src/b.py", 60000)>>,
     <<RepoFile("src/b.py", 60000), RepoFile("src/a.py", 0)>>}

SelectionBudgets == {0, 100, 25100, 50000}

SelectionFileCaps == {0, 1, 2, 50}

SelectionPerFileCaps == {0, 50, 25000}

SelectionInputs ==
    {[op |-> "select_next_batch_by_budget", done |-> FALSE,
      repo_files |-> files, already |-> already, max_chars_budget |-> budget,
      max_files_cap |-> cap, max_chars_per_file |-> per_file,
      result |-> <<>>] :
        files \in SelectionFileLists \cup
                  {<<RepoFile("a/b/c/d/e/f/g.py", 20), RepoFile("a/b/c.py", 20),
                     RepoFile("src/setup.py", 30000), RepoFile("ghost.py", 20),
                     RepoFile("package.json", 20), RepoFile("docs/LICENSE", 20),
                     RepoFile("yarn.lock", 20), RepoFile("README.md", 20),
                     RepoFile("a/b/c/d/e/f.py", 20), RepoFile("src/a.py", 20)>>},
        already \in SUBSET {"README.md", "src/a.py"},
        budget \in SelectionBudgets, cap \in SelectionFileCaps,
        per_file \in SelectionPerFileCaps}

ClassificationInputs ==
    {[op |-> "classified_call", done |-> FALSE, shape |-> shape, raw |-> raw,
      result |-> [attempts |-> 0, result |-> "none", requests |-> 0]] :
        shape \in CallShapes, raw \in HttpOutcomes \cup {"invalid_url", "missing_api_key"}}

---------------------------------------------------------------------------
(* clients/llm_client.py: _parse_structured_response.  A reply is a sequence *)
(* of tokens: "fence" is a code fence (three backticks), "ws" is white      *)
(* space, "json" the language tag after a fence,                            *)
(* "{" "}" "[" "]" "," the JSON punctuation, a token ending in               *)
(* ":" a key, "q" a double quote; every other token is a word.               *)

\* The texts of JSON strings: plain words, words with a fenced snippet, empty.
JsonStrings == {<<"cli">>, <<"use", "fence", "x", "fence">>, <<>>}

\* JSON objects of a reply; a field is <<>> when the key is absent and <<v>>
\* when it is present with value v.
JsonObjects ==
    [summary : {<<>>} \cup {<<t>> : t \in JsonStrings},
     technologies : {<<>>, <<<<>>>>, <<<<(<<"python">>)>>>>},
     structure : {<<>>, <<(<<"src">>)>>}]

RenderString(t) == <<"q">> \o t \o <<"q">>

RECURSIVE JoinTokens(_)
\* The parts of a list or an object, separated by commas.
JoinTokens(parts) ==
    IF parts = <<>> THEN <<>>
    ELSE Head(parts) \o (IF Len(parts) > 1 THEN <<",">> ELSE <<>>)
         \o JoinTokens(Tail(parts))

RenderList(items) ==
    <<"[">> \o JoinTokens([i \in 1..Len(items) |-> RenderString(items[i])])
    \o <<"]">>

\* The JSON text of an object (what json.loads reads back as the object).
RenderObject(d) ==
    LET members ==
            (IF d.summary = <<>> THEN <<>>
             ELSE <<(<<"summary:">> \o RenderString(d.summary[1]))>>)
            \o (IF d.technologies = <<>> THEN <<>>
                ELSE <<(<<"technologies:">> \o RenderList(d.technologies[1]))>>)
            \o (IF d.structure = <<>> THEN <<>>
                ELSE <<(<<"structure:">> \o RenderString(d.structure[1]))>>)
    IN  <<"{">> \o JoinTokens(members) \o <<"}">>

\* JSON texts that are not an object.
JsonNonObjects == {<<"[", "]">>, RenderString(<<"cli">>)}

\* json.loads(text): the object or other value the text is the JSON of, or a
\* JSONDecodeError.
json_loads(text) ==
    IF \E d \in JsonObjects : RenderObject(d) = text
    THEN [kind |-> "dict",
          data |-> <<CHOOSE d \in JsonObjects : RenderObject(d) = text>>]
    ELSE IF text \in JsonNonObjects THEN [kind |-> "other", data |-> <<>>]
    ELSE [kind |-> "JSONDecodeError", data |-> <<>>]

RECURSIVE LStrip(_)
LStrip(t) == IF t # <<>> /\ Head(t) = "ws" THEN LStrip(Tail(t)) ELSE t

RECURSIVE RStrip(_)
RStrip(t) ==
    IF t # <<>> /\ t[Len(t)] = "ws" THEN RStrip(SubSeq(t, 1, Len(t) - 1)) ELSE t

\* str.strip()
Strip(t) == RStrip(LStrip(t))

\* re.search(r"```(?:json)?\s*([\s\S]*?)```", text): the first fence and the
\* next one after it; group(1) is what lies between, less a leading language
\* tag and white space.  <<>> when the text has fewer than two fences, else
\* <<group(1)>>.
code_match(text) ==
    LET fences == {i \in 1..Len(text) : text[i] = "fence"}
    IN  IF Cardinality(fences) < 2 THEN <<>>
        ELSE LET open == CHOOSE i \in fences : \A j \in fences : i <= j
                 close == CHOOSE i \in fences \ {open} :
                              \A j \in fences \ {open} : i <= j
                 inner == SubSeq(text, open + 1, close - 1)
                 body == IF inner # <<>> /\ Head(inner) = "json"
                         THEN Tail(inner) ELSE inner
             IN  <<LStrip(body)>>

FreeText(content) ==
    [summary |-> Strip(content), technologies |-> <<>>, structure |-> <<>>]

\* None of the objects carries a "description" key, so a missing summary falls
\* back to content.strip(); every value has the type the code expects.
_parse_structured_response(content) ==
    LET stripped == Strip(content)
        m == code_match(stripped)
        text == IF m # <<>> THEN Strip(m[1]) ELSE stripped
        loaded == json_loads(text)
        data == loaded.data[1]
    IN  IF stripped = <<>>
        THEN [summary |-> <<>>, technologies |-> <<>>, structure |-> <<>>]
        ELSE IF loaded.kind # "dict" THEN FreeText(content)
        ELSE [summary |-> IF data.summary = <<>> THEN Strip(content)
                          ELSE data.summary[1],
              technologies |-> IF data.technologies = <<>> THEN <<>>
                               ELSE data.technologies[1],
              structure |-> IF data.structure = <<>> THEN <<>>
                            ELSE data.structure[1]]

\* The same body inside a fenced code block.
Fenced(body) == <<"fence", "json", "ws">> \o body \o <<"ws", "fence">>

\* Replies that are not JSON: prose, prose in white space, nothing, white
\* space only, prose with a fenced snippet.
NonJsonReplies ==
    {<<"cli", "ws", "tool">>, <<"ws", "cli", "ws">>, <<>>, <<"ws">>,
     <<"see", "ws", "fence", "x", "fence">>}

NoParse == [summary |-> <<>>, technologies |-> <<>>, structure |-> <<>>]

ParseInputs ==
    {[op |-> "_parse_structured_response", done |-> FALSE, body |-> <<d>>,
      content |-> RenderObject(d), result |-> NoParse,
      fenced_result |-> NoParse] : d \in JsonObjects}
    \cup {[op |-> "_parse_structured_response", done |-> FALSE, body |-> <<>>,
           content |-> t, result |-> NoParse, fenced_result |-> NoParse] :
            t \in NonJsonReplies \cup JsonNonObjects}

\* The reply is parsed as it is and, when it is a JSON object body, also
\* wrapped in a fenced code block.
ApplyParse ==
    /\ unit.op = "_parse_structured_response"
    /\ ~unit.done
    /\ unit' = [unit EXCEPT
                   !.done = TRUE,
                   !.result = _parse_structured_response(unit.content),
                   !.fenced_result =
                       IF unit.body = <<>> THEN NoParse
                       ELSE _parse_structured_response(Fenced(unit.content))]
    /\ UNCHANGED <<pc, state, settings, breaker, last_call, raised, response,
                   requests, node_trace, inflight, history, fetch, runs>>

\* A reply with more batches than PLAN_BATCHES_MAX_BATCHES, some of them with
\* unknown paths only.
LongPlanReply ==
    [i \in 1..(PLAN_BATCHES_MAX_BATCHES + 1) |->
        IF i = 2 THEN <<"ghost.py">>
        ELSE IF i = 3 THEN <<"src/a.py", "ghost.py", "README.md">>
        ELSE <<"README.md">>]

PlanAllowedPaths == {{}, {"README.md"}, {"README.md", "src/a.py", "src/b.py"}}

PlanMaxBatches == {0, 1, 2, PLAN_BATCHES_MAX_BATCHES}

PlanInputs ==
    {[op |-> "_parse_plan_batches_response", done |-> FALSE, raw |-> raw,
      allowed_paths |-> allowed, max_batches |-> n, result |-> <<>>] :
        raw \in PlanReplies \cup {LongPlanReply}, allowed \in PlanAllowedPaths,
        n \in PlanMaxBatches}

ApplyPlanParse ==
    /\ unit.op = "_parse_plan_batches_response"
    /\ ~unit.done
    /\ unit' = [unit EXCEPT
                   !.done = TRUE,
                   !.result = _parse_plan_batches_response(
                                  unit.raw, unit.allowed_paths,
                                  unit.max_batches)]
    /\ UNCHANGED <<pc, state, settings, breaker, last_call, raised, response,
                   requests, node_trace, inflight, history, fetch, runs>>

\* Calls made by one selection loop: enough to pass the end of every list.
MaxSelectionCalls == 5

\* A caller that selects, folds the batch into its processed set and selects
\* again (selector_node and summarizer_node do this through the state).
SelectionLoopInputs ==
    {[op |-> "selection_loop", repo_files |-> files, already |-> {},
      max_chars_budget |-> budget, max_files_cap |-> cap,
      max_chars_per_file |-> per_file, calls |-> 0, had_remaining |-> FALSE,
      result |-> <<>>] :
        files \in SelectionFileLists, budget \in SelectionBudgets,
        cap \in SelectionFileCaps \ {0}, per_file \in SelectionPerFileCaps}

ApplySelection ==
    /\ unit.op = "select_next_batch_by_budget"
    /\ ~unit.done
    /\ unit' = [unit EXCEPT
                   !.done = TRUE,
                   !.result = select_next_batch_by_budget(
                                  unit.repo_files, unit.already,
                                  unit.max_chars_budget, unit.max_files_cap,
                                  unit.max_chars_per_file)]
    /\ UNCHANGED <<pc, state, settings, breaker, last_call, raised, response,
                   requests, node_trace, inflight, history, fetch, runs>>

ApplyClassification ==
    /\ unit.op = "classified_call"
    /\ ~unit.done
    /\ unit' = [unit EXCEPT !.done = TRUE,
                            !.result = classified_call(unit.shape, unit.raw)]
    /\ UNCHANGED <<pc, state, settings, breaker, last_call, raised, response,
                   requests, node_trace, inflight, history, fetch, runs>>

\* One turn of the loop: select with the processed set so far, then add the
\* batch to it.
FoldSelection ==
    /\ unit.op = "selection_loop"
    /\ unit.calls < MaxSelectionCalls
    /\ LET batch == select_next_batch_by_budget(
                        unit.repo_files, unit.already, unit.max_chars_budget,
                        unit.max_files_cap, unit.max_chars_per_file)
       IN  unit' = [unit EXCEPT
                       !.calls = @ + 1,
                       !.had_remaining =
                           \E i \in 1..Len(unit.repo_files) :
                              LET p == unit.repo_files[i].path
                              IN  p # "" /\ ~should_skip_path(p)
                                  /\ p \notin unit.already,
                       !.result = batch,
                       !.already = @ \cup Range(batch)]
    /\ UNCHANGED <<pc, state, settings, breaker, last_call, raised, response,
                   requests, node_trace, inflight, history, fetch, runs>>

\* Summaries as word sequences (what str.split gives), some in upper case,
\* one with a repeated word, one of ten distinct words.
HeuristicSummaries ==
    LET ten == <<"w0", "w1", "w2", "w3", "w4", "w5", "w6", "w7", "w8", "w9">>
    IN  {<<>>, <<"cli", "tool">>, <<"CLI", "Tool">>, <<"cli", "cli", "web">>,
         <<"web">>, ten, SubSeq(ten, 1, 7), SubSeq(ten, 1, 6)}

HeuristicInputs ==
    {[op |-> "_heuristic_continue_or_done", done |-> FALSE,
      previous_summaries |-> previous, current_summary |-> current,
      decision |-> "none"] :
        previous \in {<<>>} \cup {<<a>> : a \in HeuristicSummaries}
                     \cup {<<a, b>> : a \in {<<"web">>, <<"CLI">>},
                                      b \in HeuristicSummaries},
        current \in HeuristicSummaries}

ApplyHeuristic ==
    /\ unit.op = "_heuristic_continue_or_done"
    /\ ~unit.done
    /\ unit' = [unit EXCEPT
                   !.done = TRUE,
                   !.decision = _heuristic_continue_or_done(
                                  unit.previous_summaries,
                                  unit.current_summary)]
    /\ UNCHANGED <<pc, state, settings, breaker, last_call, raised, response,
                   requests, node_trace, inflight, history, fetch, runs>>

\* len(seg) for the path segments of the universe.
StrLen(seg) ==
    CASE seg \in {"a", "b", "c", "d", "e", "f"} -> 1
      [] seg \in {"src", "lib"} -> 3
      [] seg \in {"a.py", "b.py", "c.py", "f.py", "g.py", "x.js", "y.py", "docs"} -> 4
      [] seg = "Build" -> 5
      [] seg = "LICENSE" -> 7
      [] seg \in {"ghost.py", "setup.py", "PKG-INFO"} -> 8
      [] seg \in {"README.md", "yarn.lock"} -> 9
      [] seg = "App.MIN.JS" -> 10
      [] seg \in {"Node_Modules", "node_modules", "package.json", "pkg.egg-info"} -> 12
      [] OTHER -> 0

\* services/repo_processor.py: _build_directory_tree, as the length of the
\* string it returns.  The paths are taken in str order; a directory is
\* written once, on a line indented by two spaces per level and ended by "/";
\* the lines are joined by "\n".  (max_entries = 200 is never reached here.)
_build_directory_tree(paths) ==
    LET less(p, q) == PathRank(p) < PathRank(q)
        sorted == SortSeq(paths, less)
        segs(k) == _path_segments(sorted[k])
        seen(k) == UNION {{SubSeq(segs(j), 1, i) : i \in 1..(Len(segs(j)) - 1)} :
                             j \in 1..(k - 1)}
        \* characters of the lines written for path k, one "\n" for each
        chars(k) ==
            LET n == Len(segs(k))
                dirs[i \in 0..(n - 1)] ==
                    IF i = 0 THEN 0
                    ELSE dirs[i - 1]
                         + (IF SubSeq(segs(k), 1, i) \in seen(k) THEN 0
                            ELSE 2 * (i - 1) + StrLen(segs(k)[i]) + 1 + 1)
            IN  dirs[n - 1] + 2 * (n - 1) + StrLen(segs(k)[n]) + 1
        total[k \in 0..Len(sorted)] ==
            IF k = 0 THEN 0 ELSE total[k - 1] + chars(k)
    IN  IF paths = <<>> THEN 10 ELSE total[Len(sorted)] - 1

\* services/repo_processor.py: _build_context_for_files, as the length of the
\* string it returns and, for each file in the order of the loop, the number
\* of characters of the file's own content that the string holds.  A file is
\* its path and the length of its content (taken without surrounding white
\* space).
_build_context_for_files(files, max_chars) ==
    LET n == Len(files)
        single_cap == IF max_chars \div 3 > 1 THEN max_chars \div 3 ELSE 1
        own(i) == IF files[i].content > single_cap THEN single_cap
                  ELSE files[i].content
        \* content[:single_cap] + "\n\n[... truncated for context limit ...]"
        capped(i) == IF files[i].content > single_cap THEN single_cap + 39
                     ELSE files[i].content
        \* sorted is stable: files of one path keep their order
        less(i, j) == \/ SortKeyLess(files[i].path, files[j].path)
                      \/ (files[i].path = files[j].path /\ i < j)
        ordered == SortSeq([i \in 1..n |-> i], less)
        path_len(i) ==
            LET sg == _path_segments(files[i].path)
                sum[k \in 0..Len(sg)] ==
                    IF k = 0 THEN 0 ELSE sum[k - 1] + StrLen(sg[k]) + 1
            IN  sum[Len(sg)] - 1
        tree_section ==
            29 + _build_directory_tree([i \in 1..n |-> files[i].path]) + 4
        omission_msg == 50
        loop[k \in 0..n] ==
            IF k = 0
            THEN [used |-> tree_section + 15, stopped |-> FALSE, own |-> <<>>]
            ELSE LET before == loop[k - 1]
                     f == ordered[k]
                     header == 5 + path_len(f) + 2
                     remaining == max_chars - before.used - header
                                  - omission_msg
                 IN  IF before.stopped THEN before
                     ELSE IF before.used + omission_msg >= max_chars
                     THEN [before EXCEPT !.stopped = TRUE]
                     ELSE IF capped(f) = 0
                     THEN [before EXCEPT !.own = Append(@, 0)]
                     ELSE IF remaining <= 0
                     THEN [before EXCEPT !.stopped = TRUE]
                     ELSE IF capped(f) > remaining
                     THEN [used |-> before.used + header + remaining + 21,
                           stopped |-> FALSE,
                           own |-> Append(before.own,
                                          IF own(f) < remaining THEN own(f)
                                          ELSE remaining)]
                     ELSE [used |-> before.used + header + capped(f),
                           stopped |-> FALSE,
                           own |-> Append(before.own, own(f))]
        last == loop[n]
    IN  IF files = <<>> THEN [length |-> 61, own |-> <<>>]
        ELSE [length |-> last.used
                         + (IF last.stopped THEN omission_msg ELSE 0),
              own |-> last.own]

\* File lists: none; a short README with two large files; ten small files in
\* nested directories; a repeated path with an empty file.
ContextInputs ==
    {[op |-> "_build_context_for_files", done |-> FALSE, files |-> files,
      max_chars |-> max_chars, context |-> [length |-> 0, own |-> <<>>]] :
        files \in
            {<<>>,
             <<RepoFile("README.md", 13), RepoFile("src/a.py", 10000),
               RepoFile("src/b.py", 10000)>>,
             <<RepoFile("a/b/c/d/e/f/g.py", 5), RepoFile("a/b/c.py", 5),
               RepoFile("src/setup.py", 5), RepoFile("ghost.py", 5),
               RepoFile("package.json", 5), RepoFile("docs/LICENSE", 5),
               RepoFile("README.md", 5), RepoFile("a/b/c/d/e/f.py", 5),
               RepoFile("src/a.py", 5), RepoFile("src/b.py", 5)>>,
             <<RepoFile("src/a.py", 0), RepoFile("README.md", 400),
               RepoFile("src/a.py", 50)>>},
        max_chars \in {0, 1, 2, 3, 10, 100, 200, 299, 300, 301, 1000, 5000}}

ApplyContext ==
    /\ unit.op = "_build_context_for_files"
    /\ ~unit.done
    /\ unit' = [unit EXCEPT
                   !.done = TRUE,
                   !.context = _build_context_for_files(unit.files,
                                                        unit.max_chars)]
    /\ UNCHANGED <<pc, state, settings, breaker, last_call, raised, response,
                   requests, node_trace, inflight, history, fetch, runs>>

\* Paths given to the path filter: the paths of the universe, one written
\* with a backslash, and the empty path.
SkipPathInputs ==
    {[op |-> "should_skip_path", done |-> FALSE, path |-> path,
      excluded |-> FALSE] :
        path \in RepoPaths \cup
                 {"ghost.py", "package.json", "src/setup.py", "docs/LICENSE",
                  "a/b/c.py", "a/b/c/d/e/f.py", "a/b/c/d/e/f/g.py",
                  "src/node_modules", "yarn.lock", "src/App.MIN.JS",
                  "pkg.egg-info/PKG-INFO", "dist\\main.py", "lib/Build/y.py",
                  ""}}

ApplySkipPath ==
    /\ unit.op = "should_skip_path"
    /\ ~unit.done
    /\ unit' = [unit EXCEPT !.done = TRUE,
                            !.excluded = should_skip_path(unit.path)]
    /\ UNCHANGED <<pc, state, settings, breaker, last_call, raised, response,
                   requests, node_trace, inflight, history, fetch, runs>>

NextUnits ==
    \/ ApplySelection \/ ApplyClassification \/ FoldSelection
    \/ ApplyParse \/ ApplyPlanParse
    \/ ApplyHeuristic \/ ApplyContext \/ ApplySkipPath

InitUnits ==
    /\ pc = "idle"
    /\ state = NoRun
    /\ settings = [DECIDER_USE_LLM |-> TRUE]
    /\ breaker = [fn \in WrappedFunctions |-> ClosedBreaker]
    /\ last_call = NoCall
    /\ raised = "none"
    /\ response = NoResponse
    /\ requests = 0
    /\ node_trace = <<>>
    /\ inflight = NoInflight
    /\ history = <<>>
    /\ fetch = NoFetch
    /\ runs = <<>>
    /\ unit \in SelectionInputs \cup SelectionLoopInputs \cup ParseInputs \cup
                 PlanInputs \cup HeuristicInputs \cup ContextInputs \cup
                 SkipPathInputs \cup
                 {u \in ClassificationInputs : u.raw \in RawOutcomesOf(u.shape)}

SpecUnits == InitUnits /\ [][NextUnits]_vars

---------------------------------------------------------------------------
(* Properties of the pure functions *)

\* C15: a timeout, an HTTP 429, a 5xx response and a network-level error are
\* surfaced as a transient failure, for every call shape of both dependencies.
C15_TransientFailures ==
    (/\ unit.op = "classified_call" /\ unit.done
     /\ unit.raw \in {"timeout", "http_429", "http_500", "http_503",
                      "network_error"}) =>
        unit.result.result = "transient"

\* C16: malformed input, HTTP 404, 403 and 401 are surfaced as a permanent
\* failure after a single attempt, and a malformed repository URL is
\* rejected without any request being sent.
C16_PermanentFailures ==
    (/\ unit.op = "classified_call" /\ unit.done
     /\ unit.raw \in {"invalid_url", "missing_api_key", "http_404", "http_403",
                      "http_401"}) =>
        /\ unit.result.result = "permanent"
        /\ unit.result.attempts = 1
        /\ (unit.raw = "invalid_url" => unit.result.requests = 0)

\* effectiveSize of a returned path: the stripped length of the file stored
\* under the path, capped by perFileCap unless perFileCap is 0.
EffectiveSize(files, path, per_file_cap) ==
    LET size == DictGet(files, path).content
    IN  IF per_file_cap = 0 \/ size < per_file_cap THEN size ELSE per_file_cap

RECURSIVE SumEffective(_, _, _)
SumEffective(paths, files, per_file_cap) ==
    IF paths = <<>> THEN 0
    ELSE EffectiveSize(files, Head(paths), per_file_cap)
         + SumEffective(Tail(paths), files, per_file_cap)

\* C19: the batch has at most fileCap paths, and its effective sizes add up
\* to at most charBudget unless it is one path whose effective size alone
\* exceeds charBudget.
C19_BatchWithinBudget ==
    (unit.op = "select_next_batch_by_budget" /\ unit.done) =>
        LET r == unit.result
            total == SumEffective(r, unit.repo_files, unit.max_chars_per_file)
        IN  /\ Len(r) <= unit.max_files_cap
            /\ \/ total <= unit.max_chars_budget
               \/ Len(r) = 1 /\ total > unit.max_chars_budget

C19_Witness ==
    /\ unit.op = "select_next_batch_by_budget" /\ unit.done
    /\ Len(unit.result) = 1
    /\ unit.max_files_cap > 1
    /\ Len(unit.repo_files) > 2
    /\ SumEffective(unit.result, unit.repo_files, unit.max_chars_per_file)
           > unit.max_chars_budget

\* C20: the batch holds no path of alreadyProcessed, no path the path filter
\* excludes, and no path twice.
C20_BatchPathsFresh ==
    (unit.op = "select_next_batch_by_budget" /\ unit.done) =>
        LET r == unit.result
        IN  /\ \A i \in 1..Len(r) :
                   r[i] \notin unit.already /\ ~should_skip_path(r[i])
            /\ \A i \in 1..Len(r) : \A j \in (i + 1)..Len(r) : r[i] # r[j]

C20_Witness ==
    /\ unit.op = "select_next_batch_by_budget" /\ unit.done
    /\ Len(unit.result) >= 2
    /\ unit.already # {}
    /\ \E i \in 1..Len(unit.repo_files) :
           should_skip_path(unit.repo_files[i].path)
    /\ \E i, j \in 1..Len(unit.repo_files) :
           i # j /\ unit.repo_files[i].path = unit.repo_files[j].path

\* The eligible paths of a file list: every path the path filter lets through.
EligiblePathSet(files) ==
    {files[i].path : i \in 1..Len(files)}
        \ {p \in {files[i].path : i \in 1..Len(files)} : should_skip_path(p)}

\* C21: from an empty processed set and with fileCap >= 1, a call returns a
\* non-empty batch whenever unprocessed eligible paths remained; after
\* |EligiblePathSet| calls every eligible path is processed and every later
\* call returns the empty list.
C21_SelectionExhausts ==
    (unit.op = "selection_loop" /\ unit.calls >= 1) =>
        LET eligible == EligiblePathSet(unit.repo_files)
        IN  /\ unit.had_remaining => unit.result # <<>>
            /\ unit.calls >= Cardinality(eligible) => eligible \subseteq unit.already
            /\ unit.calls > Cardinality(eligible) => unit.result = <<>>
            /\ unit.already \subseteq eligible

C21_Witness ==
    /\ unit.op = "selection_loop"
    /\ Cardinality(EligiblePathSet(unit.repo_files)) = 3
    /\ unit.max_files_cap = 1
    /\ unit.calls = 4
    /\ unit.result = <<>>

---------------------------------------------------------------------------
(* clients/github_client.py: fetch_blob_contents_for_entries, one call with *)
(* its blob requests running as concurrent tasks under the semaphore.      *)

\* What one blob request comes to in _fetch_single_blob: a RepoFile, None
\* (not base64 / not UTF-8), a GitHubClientError (transient or permanent), or
\* an exception of another class (e.g. resp.json() on a body that is not JSON).
FetchOutcomes == {"text", "binary", "transient", "permanent", "unexpected"}

FetchEntryLists ==
    {<<>>,
     <<TreeEntry("README.md", 100, "sha1")>>,
     <<TreeEntry("README.md", 100, "sha1"), TreeEntry("src/a.py", 10, "none")>>,
     <<TreeEntry("README.md", 100, "sha1"), TreeEntry("src/a.py", 10, "none"),
       TreeEntry("src/b.py", 10, "sha3")>>,
     <<TreeEntry("README.md", 100, "sha1"), TreeEntry("src/a.py", 10, "sha2"),
       TreeEntry("src/b.py", 10, "sha3")>>}

FetchConcurrencies == {1, 2}

FetchInputs ==
    {[status |-> "call", url_valid |-> v, entries |-> es,
      max_concurrency |-> c, attempt |-> 1,
      phase |-> [i \in 1..Len(es) |-> "no_task"],
      outcome |-> [i \in 1..Len(es) |-> "none"],
      requests |-> [i \in 1..Len(es) |-> 0],
      result |-> "none", files |-> <<>>] :
        v \in BOOLEAN, es \in FetchEntryLists, c \in FetchConcurrencies}

\* Variant: the semaphore lets every task through.
semaphore_never_locked(in_flight, max_concurrency) == TRUE

\* asyncio.Semaphore(max_concurrency): a task enters while fewer than
\* max_concurrency tasks hold the semaphore.
semaphore_free(in_flight, max_concurrency) == in_flight < max_concurrency

InFlight(f) == {i \in 1..Len(f.entries) : f.phase[i] = "in_flight"}

RECURSIVE gather_results_skipping_failures(_, _, _, _)
\* Variant: a failed request is left out of the list like a binary blob.
gather_results_skipping_failures(entries, outcome, i, files) ==
    IF i > Len(entries) THEN [result |-> "files", files |-> files]
    ELSE IF outcome[i] = "text"
    THEN gather_results_skipping_failures(entries, outcome, i + 1,
                                          Append(files, entries[i].path))
    ELSE gather_results_skipping_failures(entries, outcome, i + 1, files)

RECURSIVE gather_results(_, _, _, _)
\* for r in results: a RepoFile is appended, None is passed over, the first
\* exception in entry order is raised (wrapped as transient unless it is a
\* GitHubClientError).
gather_results(entries, outcome, i, files) ==
    IF i > Len(entries) THEN [result |-> "files", files |-> files]
    ELSE IF outcome[i] = "text"
    THEN gather_results(entries, outcome, i + 1, Append(files, entries[i].path))
    ELSE IF outcome[i] \in {"transient", "permanent"}
    THEN [result |-> outcome[i], files |-> <<>>]
    ELSE IF outcome[i] = "unexpected"
    THEN [result |-> "transient", files |-> <<>>]
    ELSE gather_results(entries, outcome, i + 1, files)

fetch_frame == <<pc, state, settings, last_call, raised, response, requests,
                 node_trace, inflight, history, unit, runs>>

\* The body up to the creation of the tasks: no entries, URL parsing, one
\* task per entry with a sha.
StartAttempt ==
    /\ fetch.status = "call"
    /\ fetch' =
         IF fetch.entries = <<>>
         THEN [fetch EXCEPT !.status = "gathered", !.result = "files",
                            !.files = <<>>]
         ELSE IF ~fetch.url_valid
         THEN [fetch EXCEPT !.status = "gathered", !.result = "permanent",
                            !.files = <<>>]
         ELSE [fetch EXCEPT
                 !.status = "running",
                 !.phase = [i \in 1..Len(fetch.entries) |->
                              IF fetch.entries[i].sha # "none"
                              THEN "waiting" ELSE "no_task"],
                 !.outcome = [i \in 1..Len(fetch.entries) |-> "none"],
                 !.requests = [i \in 1..Len(fetch.entries) |-> 0],
                 !.result = "none", !.files = <<>>]
    /\ UNCHANGED <<breaker, fetch_frame>>

\* fetch_one: async with semaphore, then the GET of _fetch_single_blob.
Acquire(i) ==
    /\ fetch.status = "running"
    /\ fetch.phase[i] = "waiting"
    /\ semaphore_free(Cardinality(InFlight(fetch)), fetch.max_concurrency)
    /\ fetch' = [fetch EXCEPT !.phase[i] = "in_flight",
                              !.requests[i] = @ + 1]
    /\ UNCHANGED <<breaker, fetch_frame>>

\* The request of task i ends: _fetch_single_blob returns or raises and the
\* semaphore is released.
Complete(i, o) ==
    /\ fetch.status = "running"
    /\ fetch.phase[i] = "in_flight"
    /\ fetch' = [fetch EXCEPT !.phase[i] = "done", !.outcome[i] = o]
    /\ UNCHANGED <<breaker, fetch_frame>>

\* asyncio.gather(..., return_exceptions=True) returns once every task has
\* ended; the loop over the results follows.
Gather ==
    /\ fetch.status = "running"
    /\ \A i \in 1..Len(fetch.entries) : fetch.phase[i] \in {"done", "no_task"}
    /\ LET r == gather_results(fetch.entries, fetch.outcome, 1, <<>>)
       IN  fetch' = [fetch EXCEPT !.status = "gathered", !.result = r.result,
                                  !.files = r.files]
    /\ UNCHANGED <<breaker, fetch_frame>>

\* @retry calls the body again after a transient error, up to RETRY_ATTEMPTS
\* attempts; otherwise the call returns through @circuit.
Conclude ==
    /\ fetch.status = "gathered"
    /\ IF _is_transient(fetch.result) /\ fetch.attempt < RETRY_ATTEMPTS
       THEN /\ fetch' = [fetch EXCEPT !.status = "call", !.attempt = @ + 1]
            /\ UNCHANGED breaker
       ELSE /\ fetch' = [fetch EXCEPT !.status = "returned"]
            /\ breaker' =
                 [breaker EXCEPT !["fetch_blob_contents_for_entries"] =
                    IF is_failure(fetch.result) THEN call_failed(@)
                    ELSE call_succeeded(@)]
    /\ UNCHANGED fetch_frame

NextFetch ==
    \/ StartAttempt
    \/ \E i \in 1..Len(fetch.entries) : Acquire(i)
    \/ \E i \in 1..Len(fetch.entries) : \E o \in FetchOutcomes : Complete(i, o)
    \/ Gather
    \/ Conclude

InitFetch ==
    /\ pc = "idle"
    /\ state = NoRun
    /\ settings = [DECIDER_USE_LLM |-> TRUE]
    /\ breaker = [fn \in WrappedFunctions |-> ClosedBreaker]
    /\ last_call = NoCall
    /\ raised = "none"
    /\ response = NoResponse
    /\ requests = 0
    /\ node_trace = <<>>
    /\ inflight = NoInflight
    /\ history = <<>>
    /\ unit = NoUnit
    /\ runs = <<>>
    /\ fetch \in FetchInputs

SpecFetch == InitFetch /\ [][NextFetch]_vars

---------------------------------------------------------------------------
(* Properties of the blob fetch *)

HasSha(f, i) == f.entries[i].sha # "none"

\* C17: with concurrency limit c >= 1, at no moment are more than c blob
\* requests in flight, and an attempt issues exactly one request for each
\* entry with a sha (none for an entry without one).
C17_BoundedConcurrency ==
    (fetch.status \in {"running", "gathered"} /\ fetch.url_valid) =>
        /\ Cardinality(InFlight(fetch)) <= fetch.max_concurrency
        /\ \A i \in 1..Len(fetch.entries) :
               /\ fetch.requests[i] <= 1
               /\ ~HasSha(fetch, i) => fetch.requests[i] = 0
               /\ (fetch.status = "gathered" /\ HasSha(fetch, i)) =>
                      fetch.requests[i] = 1

C17_Witness ==
    /\ fetch.status = "running"
    /\ fetch.attempt = 2
    /\ Cardinality(InFlight(fetch)) = fetch.max_concurrency
    /\ \E i \in 1..Len(fetch.entries) : fetch.phase[i] = "waiting"
    /\ \E i \in 1..Len(fetch.entries) : fetch.phase[i] = "done"

FailedRequests(f) ==
    {i \in 1..Len(f.entries) :
        f.outcome[i] \in {"transient", "permanent", "unexpected"}}

\* The paths of the entries whose blob decoded as text, in entry order.
RECURSIVE DecodablePaths(_, _)
DecodablePaths(f, i) ==
    IF i > Len(f.entries) THEN <<>>
    ELSE IF f.outcome[i] = "text"
    THEN <<f.entries[i].path>> \o DecodablePaths(f, i + 1)
    ELSE DecodablePaths(f, i + 1)

\* C18: when a blob request of an attempt failed, the attempt yields no file
\* list and fails with the classification of the (first, in entry order)
\* failed request, an exception that is no client error counting as
\* transient; otherwise it yields exactly the decodable entries in entry
\* order.
C18_AllOrNothing ==
    (fetch.status = "gathered" /\ fetch.url_valid /\ fetch.entries # <<>>) =>
        LET failed == FailedRequests(fetch)
        IN  IF failed # {}
            THEN LET first == CHOOSE i \in failed : \A j \in failed : i <= j
                 IN  /\ fetch.result \in {"transient", "permanent"}
                     /\ fetch.files = <<>>
                     /\ fetch.result = IF fetch.outcome[first] = "permanent"
                                       THEN "permanent" ELSE "transient"
            ELSE /\ fetch.result = "files"
                 /\ fetch.files = DecodablePaths(fetch, 1)

C18_Witness ==
    /\ fetch.status = "gathered"
    /\ fetch.result = "permanent"
    /\ \E i, j \in 1..Len(fetch.entries) :
          /\ i < j
          /\ fetch.outcome[i] = "text"
          /\ fetch.outcome[j] = "permanent"

---------------------------------------------------------------------------
(* Properties of the nodes, continued *)

\* C22: SYNTHESIZE makes no model call and stores the empty FinalResult when
\* there is no PartialSummary; otherwise it makes one synthesis call, of at
\* most RETRY_ATTEMPTS attempts, that is given the summary of every chunk in
\* the order of summarized_chunks, and it stores the parsed reply.
C22_SynthesizeCarriesAllChunks ==
    [][(pc = "synthesizer" /\ pc' # "synthesizer") =>
          LET chunks == state.summarized_chunks
          IN  IF chunks = <<>>
              THEN /\ last_call' = NoCall
                   /\ breaker' = breaker
                   /\ state'.final_summary = <<EmptyFinal>>
              ELSE /\ last_call'.fn = "summarize_project_from_folders"
                   /\ last_call'.attempts <= RETRY_ATTEMPTS
                   /\ Len(last_call'.folder_summaries) = Len(chunks)
                   /\ \A i \in 1..Len(chunks) :
                          last_call'.folder_summaries[i].summary
                              = chunks[i].summary
                   /\ last_call'.result = "ok" =>
                          /\ last_call'.attempts >= 1
                          /\ state'.final_summary = last_call'.reply
                          /\ last_call'.reply # <<EmptyFinal>>]_vars

C22_Witness ==
    /\ pc = "END"
    /\ last_call.fn = "summarize_project_from_folders"
    /\ last_call.result = "ok"
    /\ Len(state.summarized_chunks) >= 2
    /\ state.summarized_chunks[1].summary # state.summarized_chunks[2].summary
    /\ state.final_summary = last_call.reply

\* C23: a JSON object body with the three fields is parsed to exactly those
\* fields; the same body in a fenced code block gives the identical result;
\* a reply that is not JSON gives the reply itself (less surrounding white
\* space) as summary, with no technologies and an empty structure.
C23_ParseStructuredReply ==
    (unit.op = "_parse_structured_response" /\ unit.done) =>
        IF unit.body # <<>>
        THEN LET d == unit.body[1]
             IN  /\ unit.fenced_result = unit.result
                 /\ (d.summary # <<>> /\ d.technologies # <<>>
                        /\ d.structure # <<>>) =>
                        unit.result = [summary |-> d.summary[1],
                                       technologies |-> d.technologies[1],
                                       structure |-> d.structure[1]]
        ELSE unit.result = [summary |-> Strip(unit.content),
                            technologies |-> <<>>, structure |-> <<>>]

RECURSIVE KeepsPlanOrder(_, _, _)
\* The batches of the plan are, in order, batches of the reply with the
\* unknown paths left out.
KeepsPlanOrder(plan, raw, allowed) ==
    IF plan = <<>> THEN TRUE
    ELSE IF raw = <<>> THEN FALSE
    ELSE IF FilterSeq(Head(raw), allowed) = Head(plan)
    THEN KeepsPlanOrder(Tail(plan), Tail(raw), allowed)
    ELSE KeepsPlanOrder(plan, Tail(raw), allowed)

\* C24: the plan made of a reply holds only allowed (eligible) paths, has at
\* most max_batches batches and no empty batch, and keeps the reply's order
\* of batches and of paths within a batch.
C24_PlanFromReply ==
    (unit.op = "_parse_plan_batches_response" /\ unit.done) =>
        LET plan == unit.result
        IN  /\ Len(plan) <= unit.max_batches
            /\ \A i \in 1..Len(plan) :
                   /\ plan[i] # <<>>
                   /\ Range(plan[i]) \subseteq unit.allowed_paths
            /\ KeepsPlanOrder(plan, unit.raw, unit.allowed_paths)

C24_Witness ==
    /\ unit.op = "_parse_plan_batches_response" /\ unit.done
    /\ unit.max_batches = PLAN_BATCHES_MAX_BATCHES
    /\ Len(unit.raw) > unit.max_batches
    /\ Len(unit.result) = unit.max_batches - 1
    /\ \E i \in 1..Len(unit.result) : Len(unit.result[i]) = 2

\* The batch the plan names for the pass: planned_batches[current_batch_index]
\* (0-based in the code), nothing once the index has passed the plan's end.
PlannedBatch(s) ==
    IF s.current_batch_index < Len(s.planned_batches)
    THEN s.planned_batches[s.current_batch_index + 1]
    ELSE <<>>

\* C25: SELECT sets current_batch_paths to the batch the plan holds at
\* current_batch_index, so the planned batches are taken one per pass in plan
\* order.
C25_SelectTakesPlannedBatch ==
    [][(pc = "selector" /\ pc' # "selector") =>
          state'.current_batch_paths = PlannedBatch(state)]_vars

\* C26: when the pass added no new chunk (SELECT gave an empty batch, or the
\* model call of SUMMARIZE failed), the DECIDE of that pass sets decision to
\* done, whatever the earlier chunks are.
C26_NoNewChunkMeansDone ==
    [][(/\ pc = "decider" /\ pc' # "decider" /\ raised' = "none"
        /\ last_call.result # "ok") =>
          state'.decision = "done"]_vars

\* C27: when the model call of SUMMARIZE fails with an LLMClientError, one
\* entry is appended to errors, summarized_chunks and
\* already_summarized_paths stay as they are, and DECIDE runs next.
C27_SummarizeFailureRecorded ==
    [][(/\ pc = "summarizer" /\ pc' # "summarizer"
        /\ last_call'.fn = "summarize_batch"
        /\ last_call'.result \in {"transient", "permanent"}) =>
          /\ Len(state'.errors) = Len(state.errors) + 1
          /\ SubSeq(state'.errors, 1, Len(state.errors)) = state.errors
          /\ state'.errors[Len(state'.errors)].node = "summarizer"
          /\ state'.summarized_chunks = state.summarized_chunks
          /\ state'.already_summarized_paths = state.already_summarized_paths
          /\ raised' = "none"
          /\ pc' = "decider"]_vars

C27_Witness ==
    /\ pc = "decider"
    /\ last_call.fn = "summarize_batch"
    /\ last_call.result = "transient"
    /\ last_call.attempts = RETRY_ATTEMPTS
    /\ Len(state.errors) = 1
    /\ state.summarized_chunks # <<>>

\* C28: with an empty current_batch_paths SUMMARIZE makes no model call and
\* leaves every field of the state as it is.
C28_EmptyBatchNoOp ==
    [][(/\ pc = "summarizer" /\ pc' # "summarizer"
        /\ state.current_batch_paths = <<>>) =>
          /\ state' = state
          /\ last_call' = NoCall
          /\ breaker' = breaker
          /\ raised' = "none"]_vars

C28_Witness ==
    /\ pc = "decider"
    /\ state.current_batch_paths = <<>>
    /\ last_call = NoCall
    /\ state.summarized_chunks # <<>>
    /\ node_trace[Len(node_trace)].node = "summarizer"

\* C29: when FETCH left current_batch_files empty for a non-empty batch,
\* SUMMARIZE makes no model call, appends no chunk and adds nothing to
\* already_summarized_paths.
C29_NothingFetchedNoOp ==
    [][(/\ pc = "summarizer" /\ pc' # "summarizer"
        /\ state.current_batch_paths # <<>>
        /\ state.current_batch_files = <<>>) =>
          /\ last_call' = NoCall
          /\ state'.summarized_chunks = state.summarized_chunks
          /\ state'.already_summarized_paths
                 = state.already_summarized_paths]_vars

\* Settings.SUMMARY_COVERAGE_THRESHOLD = 0.8, in percent.
SUMMARY_COVERAGE_THRESHOLD_PERCENT == 80

\* C30: at DECIDE, when the processed paths are at least
\* SUMMARY_COVERAGE_THRESHOLD of the eligible paths (or all of them), decision
\* is set to done whatever the content judgment answers.
C30_CoverageMeansDone ==
    [][(/\ pc = "decider" /\ pc' # "decider" /\ raised' = "none"
        /\ LET eligible == Range(EntryPaths(state.repo_tree_entries))
               processed == Range(state.already_summarized_paths) \cap eligible
           IN  /\ eligible # {}
               /\ 100 * Cardinality(processed)
                      >= SUMMARY_COVERAGE_THRESHOLD_PERCENT
                             * Cardinality(eligible)) =>
          state'.decision = "done"]_vars

---------------------------------------------------------------------------
(* Properties of the decider's index and of the number of its passes *)

\* A step in which the decider ran and returned.
DeciderReturned == pc = "decider" /\ pc' # "decider" /\ raised' = "none"

\* C31: DECIDE returns continue only if current_batch_index + 1 is less than
\* the number of planned batches, and then advances current_batch_index by
\* exactly one; when it returns done the index is unchanged.  So the index
\* never decreases during a run and, whenever SELECT is about to run with a
\* non-empty plan, the index is a valid index into planned_batches.
C31_IndexAdvancesOnlyOnContinue ==
    /\ [][/\ DeciderReturned =>
                /\ state'.decision \in {"continue", "done"}
                /\ state'.decision = "continue" =>
                      /\ state.current_batch_index + 1
                             < Len(state.planned_batches)
                      /\ state'.current_batch_index
                             = state.current_batch_index + 1
                /\ state'.decision = "done" =>
                      state'.current_batch_index = state.current_batch_index
          /\ (pc \in GraphNodes /\ pc' # "idle") =>
                state'.current_batch_index >= state.current_batch_index]_vars
    /\ [](pc = "selector" /\ state.planned_batches # <<>> =>
             /\ state.current_batch_index >= 0
             /\ state.current_batch_index < Len(state.planned_batches))

C31_Witness ==
    /\ pc = "selector"
    /\ state.decision = "continue"
    /\ state.current_batch_index = 1
    /\ Len(state.planned_batches) >= 2
    /\ Runs("decider", node_trace) = 1

---------------------------------------------------------------------------
(* Properties of the lexical-overlap heuristic *)

\* C32: given at least one prior summary and a newest summary with at least
\* one token, the heuristic returns done exactly when the distinct
\* lower-cased tokens of the newest summary that occur in the prior summaries
\* are at least 70% of its distinct tokens, and continue otherwise; an
\* overlap of 1.0 gives done and an overlap of 0.0 gives continue.
C32_HeuristicThreshold ==
    (/\ unit.op = "_heuristic_continue_or_done" /\ unit.done
     /\ unit.previous_summaries # <<>> /\ unit.current_summary # <<>>) =>
        LET prior == unit.previous_summaries
            newest == {Lower(unit.current_summary[j]) :
                          j \in 1..Len(unit.current_summary)}
            shared == {w \in newest :
                          \E i \in 1..Len(prior) : \E j \in 1..Len(prior[i]) :
                             Lower(prior[i][j]) = w}
        IN  /\ unit.decision \in {"done", "continue"}
            /\ unit.decision = "done"
                   <=> 100 * Cardinality(shared) >= 70 * Cardinality(newest)
            /\ shared = newest => unit.decision = "done"
            /\ shared = {} => unit.decision = "continue"

\* Seven of the ten distinct words of the newest summary occur before:
\* exactly 70%, and the answer is done.
C32_Witness ==
    /\ unit.op = "_heuristic_continue_or_done" /\ unit.done
    /\ Len(unit.previous_summaries) = 1
    /\ Len(unit.current_summary) = 10
    /\ Len(unit.previous_summaries[1]) = 7
    /\ unit.previous_summaries[1] = SubSeq(unit.current_summary, 1, 7)
    /\ unit.decision = "done"

---------------------------------------------------------------------------
(* Properties of the order of selection *)

\* C33: the batch of budgeted selection is a prefix of the candidates
\* (eligible and not processed) sorted by (rank, path): rank 0 for
\* README/LICENSE/CONTRIBUTING/CHANGELOG at any depth, 1 for a config name at
\* the repository root, 2 for a config name deeper, 3 for any other path at
\* depth at most 1, a larger rank, non-decreasing in depth, for deeper paths;
\* ties go in path order and no candidate is passed over for a later one.
C33_BatchIsSortedPrefix ==
    (unit.op = "select_next_batch_by_budget" /\ unit.done) =>
        LET r == unit.result
            files == unit.repo_files
            candidates ==
                {p \in {files[i].path : i \in 1..Len(files)} :
                    p # "" /\ p \notin unit.already /\ ~should_skip_path(p)}
            depth(p) == Len(_path_segments(p)) - 1
            base(p) == Lower(_path_segments(p)[Len(_path_segments(p))])
            rank(p) == _file_priority(p)
            before(p, q) ==
                rank(p) < rank(q) \/ (rank(p) = rank(q) /\ PathRank(p) < PathRank(q))
        IN  /\ \A i \in 1..Len(r) : r[i] \in candidates
            /\ \A i \in 1..Len(r) : \A j \in (i + 1)..Len(r) : before(r[i], r[j])
            /\ \A p \in candidates \ Range(r) :
                  \A i \in 1..Len(r) : before(r[i], p)
            /\ \A p \in candidates :
                  /\ base(p) \in {"readme.md", "license"} => rank(p) = 0
                  /\ base(p) \in {"package.json", "setup.py"} =>
                        rank(p) = IF depth(p) = 0 THEN 1 ELSE 2
                  /\ base(p) \notin {"readme.md", "license", "package.json",
                                     "setup.py"} =>
                        /\ depth(p) <= 1 => rank(p) = 3
                        /\ depth(p) > 1 => rank(p) > 3
                        /\ \A q \in candidates :
                              (/\ base(q) \notin {"readme.md", "license",
                                                  "package.json", "setup.py"}
                               /\ depth(p) <= depth(q)) => rank(p) <= rank(q)

\* Ranks 0, 0 and 1 are taken in that order, the rank-2 file does not fit,
\* and the files after it are left out with it.
C33_Witness ==
    /\ unit.op = "select_next_batch_by_budget" /\ unit.done
    /\ unit.result = <<"README.md", "docs/LICENSE", "package.json">>
    /\ unit.max_chars_budget = 100
    /\ unit.max_files_cap = 50
    /\ \E i \in 1..Len(unit.repo_files) : unit.repo_files[i].path = "a/b/c.py"

---------------------------------------------------------------------------
(* workflow.py: two calls of run_summary_graph side by side.  Each call      *)
(* builds its own graph and its own initial state; the engine runs the       *)
(* nodes of a run one after the other; a node gives control away at its      *)
(* awaits, so the nodes of the two runs interleave.  The breakers are the    *)
(* decorated functions' and are shared.                                      *)

\* The initial state of run_summary_graph for one of two plans.
RunInputs ==
    LET listing == <<TreeEntry("README.md", 100, "sha1"),
                     TreeEntry("src/a.py", 30000, "sha2"),
                     TreeEntry("src/b.py", 30000, "sha3")>>
    IN  {[pc |-> "selector", raised |-> "none", executing |-> <<>>,
          state |-> InitialState("url", EligibleEntries(listing), plan,
                                 RepoFilesOf(listing))] :
            plan \in {<<<<"README.md", "src/a.py">>, <<"src/b.py">>>>,
                      <<<<"src/b.py">>>>}}

\* Variant: summarized_chunks is one list that all runs append to.
merge_update_shared_chunks(rs, c, node, r) ==
    [d \in Callers |->
        IF d = c
        THEN [pc |-> IF r.raised # "none" THEN "raised"
                     ELSE NextNode(node, r.state),
              raised |-> r.raised, executing |-> <<>>, state |-> r.state]
        ELSE [rs[d] EXCEPT
                 !.state.summarized_chunks = r.state.summarized_chunks]]

\* The engine merges what the node of run c returned into the state of run c
\* and follows the edge out of the node.
merge_update(rs, c, node, r) ==
    [rs EXCEPT ![c] = [pc |-> IF r.raised # "none" THEN "raised"
                              ELSE NextNode(node, r.state),
                       raised |-> r.raised, executing |-> <<>>,
                       state |-> r.state]]

\* The engine of run c starts the node the run has reached; it waits for the
\* node it started before it starts another.
BeginNode(c) ==
    /\ runs[c].pc \in GraphNodes
    /\ runs[c].executing = <<>>
    /\ runs' = [runs EXCEPT ![c].executing = Append(@, runs[c].pc)]
    /\ UNCHANGED <<pc, state, settings, breaker, last_call, raised, response,
                   requests, node_trace, inflight, history, fetch, unit>>

\* The node of run c returns or raises.
EndNode(c) ==
    /\ runs[c].executing # <<>>
    /\ \E failed \in BOOLEAN, summary_text \in SummaryTexts,
          answer \in {"continue", "done"} :
          LET node == Head(runs[c].executing)
              st == runs[c].state
              outs == [i \in 1..RETRY_ATTEMPTS |->
                          IF failed THEN "permanent" ELSE "ok"]
              final == CHOOSE f \in FinalResults : f # EmptyFinal
              r == CASE node = "selector" -> selector_node(st, breaker)
                     [] node = "batch_fetcher" ->
                            batch_fetcher_node(st, breaker, outs, {})
                     [] node = "summarizer" ->
                            summarizer_node(st, breaker, outs, summary_text)
                     [] node = "decider" ->
                            decider_node(st, breaker, settings.DECIDER_USE_LLM,
                                         answer)
                     [] node = "synthesizer" ->
                            synthesizer_node(st, breaker, outs, final)
          IN  /\ runs' = merge_update(runs, c, node, r)
              /\ breaker' = r.breaker
    /\ UNCHANGED <<pc, state, settings, last_call, raised, response, requests,
                   node_trace, inflight, history, fetch, unit>>

NextRuns == \E c \in Callers : BeginNode(c) \/ EndNode(c)

InitRuns ==
    /\ pc = "idle"
    /\ state = NoRun
    /\ settings = [DECIDER_USE_LLM |-> TRUE]
    /\ breaker = [fn \in WrappedFunctions |-> ClosedBreaker]
    /\ last_call = NoCall
    /\ raised = "none"
    /\ response = NoResponse
    /\ requests = 0
    /\ node_trace = <<>>
    /\ inflight = NoInflight
    /\ history = <<>>
    /\ fetch = NoFetch
    /\ unit = NoUnit
    /\ runs \in [Callers -> RunInputs]

SpecRuns == InitRuns /\ [][NextRuns]_vars

---------------------------------------------------------------------------
(* Properties of the breaker's count *)

\* C35: only failures classified transient count toward the breaker's
\* consecutive-failure threshold: a call of a decorated function that ends
\* with a permanent failure leaves a closed breaker's count where it was and
\* the breaker closed.
C35_PermanentFailureNotCounted ==
    [][\A c \in Callers :
          (/\ Ends(c)
           /\ inflight[c].fn \in WrappedFunctions
           /\ inflight'[c].result = "permanent"
           /\ ~breaker[inflight[c].fn].open) =>
              /\ breaker'[inflight[c].fn].failure_count
                     = breaker[inflight[c].fn].failure_count
              /\ ~breaker'[inflight[c].fn].open]_vars

---------------------------------------------------------------------------
(* Properties of the context string *)

\* C36: for every list of files and every max_chars the context string is at
\* most max_chars characters long, up to the tolerance of 200 characters the
\* tests allow for the truncation marker, and each file contributes at most
\* max(max_chars // 3, 1) characters of its own content.
C36_ContextWithinMaxChars ==
    (unit.op = "_build_context_for_files" /\ unit.done) =>
        /\ unit.context.length <= unit.max_chars + 200
        /\ \A i \in 1..Len(unit.context.own) :
              unit.context.own[i]
                  <= (IF unit.max_chars \div 3 > 1 THEN unit.max_chars \div 3
                      ELSE 1)

---------------------------------------------------------------------------
(* Properties of the path filter *)

\* C37: a path is excluded exactly when one of its directory segments (every
\* segment but the last), compared ignoring case, is in the fixed exclusion
\* set, or its final segment matches one of the fixed file patterns.
C37_ExcludedIffListedDirOrPattern ==
    (unit.op = "should_skip_path" /\ unit.done) =>
        LET segments == _path_segments(unit.path)
            n == Len(segments)
        IN  unit.excluded <=>
               \/ \E i \in 1..(n - 1) : Lower(segments[i]) \in SKIP_DIRS
               \/ n > 0 /\ segments[n] \in SkipFileNames

\* C37, amended: a path is excluded exactly when one of its directory
\* segments, compared ignoring case, is in the fixed exclusion set or ends
\* with ".egg-info", or its final segment matches one of the fixed file
\* patterns.
C37_ExcludedIffDirOrEggInfoOrPattern ==
    (unit.op = "should_skip_path" /\ unit.done) =>
        LET segments == _path_segments(unit.path)
            n == Len(segments)
        IN  unit.excluded <=>
               \/ \E i \in 1..(n - 1) :
                     Lower(segments[i]) \in SKIP_DIRS \cup {"pkg.egg-info"}
               \/ n > 0 /\ segments[n] \in SkipFileNames

\* A file whose own name is in the exclusion set is kept, and the universe
\* divides as the code divides it.
C37_Witness ==
    /\ unit.op = "should_skip_path" /\ unit.done
    /\ unit.path = "src/node_modules"
    /\ ~unit.excluded
    /\ {q \in {u.path : u \in SkipPathInputs} : should_skip_path(q)}
           = {"Node_Modules/x.js", "dist\\main.py", "lib/Build/y.py",
              "pkg.egg-info/PKG-INFO", "src/App.MIN.JS", "yarn.lock"}

---------------------------------------------------------------------------
(* Properties of the number of passes *)

\* C38: in any run, whatever the content judgment answers on each pass,
\* DECIDE executes at most max(1, number of planned batches) times, and after
\* the pass that reaches this number the run proceeds to SYNTHESIZE.
C38_DeciderPassesBounded ==
    pc # "idle" =>
        LET passes == Runs("decider", node_trace)
            most == IF Len(state.planned_batches) > 1
                    THEN Len(state.planned_batches) ELSE 1
        IN  /\ passes <= most
            /\ (/\ passes = most
                /\ node_trace[Len(node_trace)].node = "decider"
                /\ pc # "raised") => pc = "synthesizer"

\* Three planned batches and three passes: the judgment is continue on the
\* first two and the third pass ends the loop.
C38_Witness ==
    /\ pc = "synthesizer"
    /\ Len(state.planned_batches) = 3
    /\ Runs("decider", node_trace) = 3
    /\ Runs("summarizer", node_trace) = 3
    /\ Len(state.summarized_chunks) = 2
    /\ settings.DECIDER_USE_LLM

---------------------------------------------------------------------------
(* Properties of the breaker's count, continued *)

\* C39: the breaker counts one failure per failed wrapped call, not per
\* attempt: a call that fails after its RETRY_ATTEMPTS attempts raises the
\* consecutive-failure count by exactly one, a successful call resets the
\* count to zero, and a breaker opens only on the failed call that brings the
\* count of failed calls in a row to FAILURE_THRESHOLD.
C39_OneFailurePerCall ==
    /\ [](\A fn \in WrappedFunctions :
             breaker[fn].open => breaker[fn].failure_count >= FAILURE_THRESHOLD)
    /\ [][(/\ pc' # pc \/ requests' # requests
           /\ last_call'.fn \in WrappedFunctions
           /\ last_call'.attempts >= 1) =>
             LET fn == last_call'.fn
                 before == breaker[fn]
                 after == breaker'[fn]
             IN  /\ last_call'.result \in {"ok", "transient", "permanent"}
                 /\ last_call'.result = "transient" =>
                        last_call'.attempts = RETRY_ATTEMPTS
                 /\ last_call'.result # "ok" =>
                        after.failure_count = before.failure_count + 1
                 /\ last_call'.result = "ok" =>
                        after.failure_count = 0 /\ ~after.open
                 /\ (after.open /\ ~before.open) =>
                        /\ last_call'.result # "ok"
                        /\ before.failure_count = FAILURE_THRESHOLD - 1
                 /\ \A g \in WrappedFunctions \ {fn} :
                        breaker'[g] = breaker[g]]_vars

\* A call that used all its attempts and failed has been counted once.
C39_Witness ==
    /\ last_call.fn \in WrappedFunctions
    /\ last_call.attempts = RETRY_ATTEMPTS
    /\ last_call.result = "transient"
    /\ breaker[last_call.fn].failure_count = 1
    /\ ~breaker[last_call.fn].open

---------------------------------------------------------------------------
(* Properties of the decider's fallback *)

\* C40: with the model-based decider enabled, when the decision call fails
\* for a reason the call layer classifies (authentication failure, rate
\* limit, server error, timeout, network error), DECIDE falls back to the
\* lexical-overlap heuristic, still writes a decision, and the run is not
\* aborted: every pass of the decider over a non-empty list of chunks returns,
\* writes continue or done and hands the run to the selector or the
\* synthesizer.
C40_DeciderFallsBack ==
    [][(/\ pc = "decider" /\ pc' # "decider"
        /\ settings.DECIDER_USE_LLM
        /\ state.summarized_chunks # <<>>) =>
          /\ raised' = "none"
          /\ state'.decision \in {"continue", "done"}
          /\ pc' = (IF state'.decision = "continue" THEN "selector"
                    ELSE "synthesizer")]_vars

====
